---- MODULE Spec2Model ----
(***************************************************************************)
(* Model of the RV ROVER simulation engine (game.js): shared storage and   *)
(* pockets, the per-character job queues, the per-station craft queues,    *)
(* the needs / auto-consumption state machine and the simulation step.     *)
(*                                                                         *)
(* Units.  Time is counted in whole seconds (the source counts             *)
(* milliseconds; every duration in the catalogue is a multiple of 1000).   *)
(* A need (hunger, thirst, morale, health) is an integer number of         *)
(* 1/NeedScale points, so that the per-minute drain rates of the           *)
(* configuration become exact integers per second.                         *)
(***************************************************************************)
EXTENDS Integers, Sequences, FiniteSets, TLC

(***************************************************************************)
(* Bounds of the model                                                     *)
(***************************************************************************)
MaxClock == 2

MaxQueue == 2

MaxSpawn == 3

MaxGap == 3

MaxImport == 1

\* the admin offset of the virtual clock stays within MaxOffset seconds
MaxOffset == 1200

\* the admin spawns upgrade materials up to MaxParts of each
MaxParts == 13

\* the longest geohash looked at
MaxPrecision == 2

\* the units left free in shared storage when a job with yields ends
MaxFree == 12

(***************************************************************************)
(* Configuration (FALLBACK_DATA.config)                                    *)
(***************************************************************************)
NeedScale == 6000

hungerPerSec == 25

thirstPerSec == 35

moraleRecoverPerSecRest == 10

autoConsumeThreshold == 50 * NeedScale

idleMaxCyclesPerSim == 20

PocketCapacity == 6

Min(a, b) == IF a < b THEN a ELSE b

Max(a, b) == IF a > b THEN a ELSE b

clamp(v, lo, hi) == Max(lo, Min(hi, v))

\* a need left as computed, without the clamp
clampNeedOpen(v) == v

clampNeed(v) == clamp(v, 0, 100 * NeedScale)

(***************************************************************************)
(* Catalogue (FALLBACK_DATA.items and the injected items)                  *)
(***************************************************************************)
StackItems == {"stick", "stone", "fiber", "scrap_metal", "wiring", "ration_basic", "meat_raw", "water_clean", "water_dirty", "bottle_empty", "bandage", "revive_serum", "cordage_item"}

InstanceItems == {"knife_pocket", "clothes_basic", "trap_simple"}

ItemIds == StackItems \cup InstanceItems

IsInstanceItem(itemId) == itemId \in InstanceItems

ItemCategory(itemId) ==
  CASE itemId \in {"ration_basic", "meat_raw"} -> "food"
    [] itemId \in {"water_clean", "water_dirty"} -> "water"
    [] itemId = "bottle_empty" -> "container"
    [] itemId \in {"knife_pocket", "trap_simple"} -> "tool"
    [] itemId = "clothes_basic" -> "armor"
    [] itemId \in {"bandage", "revive_serum"} -> "medical"
    [] itemId = "cordage_item" -> "material"
    [] OTHER -> "resource"

DurabilityMax(itemId) ==
  CASE itemId = "knife_pocket" -> 60
    [] itemId = "clothes_basic" -> 80
    [] itemId = "trap_simple" -> 40
    [] OTHER -> 0

EquipSlotOf(itemId) ==
  CASE itemId = "knife_pocket" -> "mainHand"
    [] itemId = "clothes_basic" -> "body"
    [] itemId = "trap_simple" -> "utility"
    [] OTHER -> "none"

\* tool.tag of an item ("none" when the item is not a tool)
ToolTagOf(itemId) ==
  CASE itemId = "knife_pocket" -> "cutting"
    [] itemId = "trap_simple" -> "trap"
    [] OTHER -> "none"

ToolTierOf(itemId) == IF itemId = "trap_simple" THEN 1 ELSE 0

ToolPowerOf(itemId) == IF itemId \in {"knife_pocket", "trap_simple"} THEN 1 ELSE 0

\* water.thirst and food.hunger / food.morale of the consumables, in need units
WaterThirst(itemId) == IF itemId = "water_clean" THEN 18 * NeedScale ELSE 12 * NeedScale

WaterDirty(itemId) == itemId = "water_dirty"

FoodHunger(itemId) == IF itemId = "meat_raw" THEN 8 * NeedScale ELSE 10 * NeedScale

FoodMorale(itemId) == IF itemId = "meat_raw" THEN 0 - NeedScale ELSE 0 - 2 * NeedScale

FoodRaw(itemId) == itemId = "meat_raw"

NoUid == 0

(***************************************************************************)
(* Generic sequence helpers                                                *)
(***************************************************************************)
RECURSIVE SumQty(_)
SumQty(stacks) ==
  IF stacks = <<>> THEN 0 ELSE Head(stacks).qty + SumQty(Tail(stacks))

StackIndex(stacks, itemId) ==
  IF \E i \in 1..Len(stacks) : stacks[i].itemId = itemId
  THEN CHOOSE i \in 1..Len(stacks) :
         /\ stacks[i].itemId = itemId
         /\ \A j \in 1..(i - 1) : stacks[j].itemId # itemId
  ELSE 0

QtyOf(stacks, itemId) ==
  IF StackIndex(stacks, itemId) = 0 THEN 0 ELSE stacks[StackIndex(stacks, itemId)].qty

HasQty(s) == s.qty > 0

DropEmpty(stacks) == SelectSeq(stacks, HasQty)

RemoveAt(seq, i) == SubSeq(seq, 1, i - 1) \o SubSeq(seq, i + 1, Len(seq))

CountInstances(instances, itemId) ==
  Cardinality({i \in 1..Len(instances) : instances[i].itemId = itemId})

LastInstanceIndex(instances, itemId) ==
  IF \E i \in 1..Len(instances) : instances[i].itemId = itemId
  THEN CHOOSE i \in 1..Len(instances) :
         /\ instances[i].itemId = itemId
         /\ \A j \in (i + 1)..Len(instances) : instances[j].itemId # itemId
  ELSE 0

\* the loop of removeItemFromStorage / removeItemFromPockets over instances:
\* walks from the end and removes matching instances until qty were removed
RECURSIVE RemoveInstances(_, _, _)
RemoveInstances(instances, itemId, qty) ==
  IF qty = 0 \/ LastInstanceIndex(instances, itemId) = 0
  THEN [instances |-> instances, left |-> qty]
  ELSE RemoveInstances(RemoveAt(instances, LastInstanceIndex(instances, itemId)), itemId, qty - 1)

UidIndex(instances, uid) ==
  IF \E i \in 1..Len(instances) : instances[i].uid = uid
  THEN CHOOSE i \in 1..Len(instances) : instances[i].uid = uid
  ELSE 0

makeInstance(uid, itemId) ==
  [uid |-> uid, itemId |-> itemId, durability |-> DurabilityMax(itemId)]

\* qty new instances of itemId with the uids base+1 .. base+qty
RECURSIVE NewInstances(_, _, _)
NewInstances(base, itemId, qty) ==
  IF qty = 0 THEN <<>>
  ELSE <<makeInstance(base + 1, itemId)>> \o NewInstances(base + 1, itemId, qty - 1)

(***************************************************************************)
(* The game state is one record s:                                         *)
(*   lastSimAt, timeOffset     state.meta                                  *)
(*   stations, capacity        state.rv.stations, state.rv.storage.capacity*)
(*   stacks, instances, rationPrefs   state.rv.storage                     *)
(*   crew, maxCrew             state.crew (a character's id is its index)  *)
(*   jobs, crafts              state.queues                                *)
(*   log                       the entries pushLog added in this handler   *)
(* uid() draws a random string, which no live object holds.  The id of a   *)
(* new queue entry is modelled as the least number no instance or entry    *)
(* of the state holds (freshUid), the uids of new instances as the numbers *)
(* after the largest one held (uidBase).                                   *)
(***************************************************************************)
UsedUids(s) ==
  {s.instances[i].uid : i \in DOMAIN s.instances}
  \cup UNION {{s.crew[c].pockets.instances[i].uid : i \in DOMAIN s.crew[c].pockets.instances} : c \in DOMAIN s.crew}
  \cup UNION {{s.jobs[c][i].id : i \in DOMAIN s.jobs[c]} : c \in DOMAIN s.jobs}
  \cup UNION {{s.crafts[st][i].id : i \in DOMAIN s.crafts[st]} : st \in DOMAIN s.crafts}

uidBase(s) ==
  IF UsedUids(s) = {} THEN 0 ELSE CHOOSE m \in UsedUids(s) : \A n \in UsedUids(s) : n <= m

freshUid(s) ==
  CHOOSE m \in 1..(uidBase(s) + 1) : m \notin UsedUids(s) /\ \A n \in 1..(m - 1) : n \in UsedUids(s)

pushLog(s, kind) == [s EXCEPT !.log = Append(@, kind)]

countStorageUsed(s) == SumQty(s.stacks) + Len(s.instances)

hasItemInStorage(s, itemId, qty) ==
  IF itemId \notin ItemIds THEN FALSE
  ELSE IF IsInstanceItem(itemId) THEN CountInstances(s.instances, itemId) >= qty
  ELSE QtyOf(s.stacks, itemId) >= qty

\* the stack branch of addItemToStorage: find or create the stack, add qty,
\* keep the ration flag and the ration preference
AddToStorageStack(s, itemId, qty, rationAllowed) ==
  LET isFood == ItemCategory(itemId) = "food"
      i == StackIndex(s.stacks, itemId)
      newFlag == IF isFood
                 THEN (IF rationAllowed = "unset" THEN itemId \in s.rationPrefs ELSE rationAllowed = "true")
                 ELSE FALSE
      stacks1 == IF i = 0
                 THEN Append(s.stacks, [itemId |-> itemId, qty |-> 0, isRationAllowed |-> newFlag])
                 ELSE s.stacks
      j == StackIndex(stacks1, itemId)
      explicit == isFood /\ rationAllowed # "unset"
      stacks2 == [stacks1 EXCEPT ![j] =
                    [@ EXCEPT !.qty = @ + qty,
                              !.isRationAllowed = IF explicit THEN rationAllowed = "true" ELSE @]]
      prefs == IF explicit
               THEN (IF rationAllowed = "true" THEN s.rationPrefs \cup {itemId} ELSE s.rationPrefs \ {itemId})
               ELSE s.rationPrefs
  IN [s EXCEPT !.stacks = stacks2, !.rationPrefs = prefs]

addItemToStorageMut(s, itemId, qty, rationAllowed) ==
  IF itemId \notin ItemIds THEN [ok |-> FALSE, reason |-> "unknown item", s |-> s]
  ELSE IF countStorageUsed(s) > s.capacity THEN [ok |-> FALSE, reason |-> "storage full", s |-> s]
  ELSE IF IsInstanceItem(itemId)
       THEN [ok |-> TRUE, reason |-> "",
             s |-> [s EXCEPT !.instances = @ \o NewInstances(uidBase(s), itemId, qty)]]
  ELSE [ok |-> TRUE, reason |-> "", s |-> AddToStorageStack(s, itemId, qty, rationAllowed)]

addItemToStorage(s, itemId, qty, rationAllowed) ==
  IF itemId \notin ItemIds THEN [ok |-> FALSE, reason |-> "unknown item", s |-> s]
  ELSE IF countStorageUsed(s) + qty > s.capacity THEN [ok |-> FALSE, reason |-> "storage full", s |-> s]
  ELSE IF IsInstanceItem(itemId)
       THEN [ok |-> TRUE, reason |-> "",
             s |-> [s EXCEPT !.instances = @ \o NewInstances(uidBase(s), itemId, qty)]]
  ELSE [ok |-> TRUE, reason |-> "", s |-> AddToStorageStack(s, itemId, qty, rationAllowed)]

\* removeItemFromStorage: the instance branch removes what it finds even when
\* it then reports failure; the stack branch checks before it removes
removeItemFromStorage(s, itemId, qty) ==
  IF itemId \notin ItemIds THEN [ok |-> FALSE, s |-> s]
  ELSE IF IsInstanceItem(itemId)
       THEN LET r == RemoveInstances(s.instances, itemId, qty)
            IN [ok |-> r.left = 0, s |-> [s EXCEPT !.instances = r.instances]]
  ELSE IF QtyOf(s.stacks, itemId) < qty \/ StackIndex(s.stacks, itemId) = 0
       THEN [ok |-> FALSE, s |-> s]
  ELSE LET i == StackIndex(s.stacks, itemId)
           st1 == [s.stacks EXCEPT ![i].qty = @ - qty]
       IN [ok |-> TRUE,
           s |-> [s EXCEPT !.stacks = IF st1[i].qty <= 0 THEN DropEmpty(st1) ELSE st1]]

(***************************************************************************)
(* Pockets                                                                 *)
(***************************************************************************)
countPocketsUsed(char) == SumQty(char.pockets.stacks) + Len(char.pockets.instances)

addItemToPocketsNoCheck(s, c, itemId, qty) ==
  LET char == s.crew[c]
  IN IF itemId \notin ItemIds THEN [ok |-> FALSE, reason |-> "unknown item", s |-> s]
     ELSE IF IsInstanceItem(itemId)
          THEN [ok |-> TRUE, reason |-> "",
                s |-> [s EXCEPT !.crew[c].pockets.instances = @ \o NewInstances(uidBase(s), itemId, qty)]]
     ELSE LET i == StackIndex(char.pockets.stacks, itemId)
              stacks1 == IF i = 0
                         THEN Append(char.pockets.stacks, [itemId |-> itemId, qty |-> 0])
                         ELSE char.pockets.stacks
              j == StackIndex(stacks1, itemId)
          IN [ok |-> TRUE, reason |-> "",
              s |-> [s EXCEPT !.crew[c].pockets.stacks = [stacks1 EXCEPT ![j].qty = @ + qty]]]

addItemToPockets(s, c, itemId, qty) ==
  LET char == s.crew[c]
      cap == char.pockets.capacity
  IN IF itemId \notin ItemIds THEN [ok |-> FALSE, reason |-> "unknown item", s |-> s]
     ELSE IF cap > 0 /\ countPocketsUsed(char) + qty > cap
          THEN [ok |-> FALSE, reason |-> "pockets full", s |-> s]
     ELSE addItemToPocketsNoCheck(s, c, itemId, qty)

removeItemFromPockets(s, c, itemId, qty) ==
  LET char == s.crew[c]
  IN IF itemId \notin ItemIds THEN [ok |-> FALSE, s |-> s]
     ELSE IF IsInstanceItem(itemId)
          THEN LET r == RemoveInstances(char.pockets.instances, itemId, qty)
               IN [ok |-> r.left = 0, s |-> [s EXCEPT !.crew[c].pockets.instances = r.instances]]
     ELSE IF QtyOf(char.pockets.stacks, itemId) < qty \/ StackIndex(char.pockets.stacks, itemId) = 0
          THEN [ok |-> FALSE, s |-> s]
     ELSE LET i == StackIndex(char.pockets.stacks, itemId)
              st1 == [char.pockets.stacks EXCEPT ![i].qty = @ - qty]
          IN [ok |-> TRUE,
              s |-> [s EXCEPT !.crew[c].pockets.stacks = IF st1[i].qty <= 0 THEN DropEmpty(st1) ELSE st1]]

(***************************************************************************)
(* Stations (FALLBACK_DATA.stations) and derived stats                     *)
(***************************************************************************)
StationIds == {"storage", "bunks", "workbench", "stove"}

MaxLevel(stationId) == IF stationId = "stove" THEN 1 ELSE 2

\* levels[level].cost of a station, as a sequence of <<item, qty>>
UpgradeCost(stationId, level) ==
  CASE stationId = "storage" /\ level = 1 -> << <<"scrap_metal", 10>>, <<"wiring", 3>> >>
    [] stationId = "storage" /\ level = 2 -> << <<"scrap_metal", 25>>, <<"wiring", 10>> >>
    [] stationId = "bunks" /\ level = 1 -> << <<"fiber", 12>>, <<"scrap_metal", 8>> >>
    [] stationId = "bunks" /\ level = 2 -> << <<"fiber", 25>>, <<"scrap_metal", 18>>, <<"wiring", 5>> >>
    [] stationId = "workbench" /\ level = 1 -> << <<"scrap_metal", 12>> >>
    [] stationId = "workbench" /\ level = 2 -> << <<"scrap_metal", 28>>, <<"wiring", 8>> >>
    [] stationId = "stove" /\ level = 1 -> << <<"scrap_metal", 10>> >>
    [] OTHER -> <<>>

StorageCapAt(level) == CASE level = 1 -> 90 [] level = 2 -> 130 [] OTHER -> 60

CrewCapAt(level) == CASE level = 1 -> 3 [] level = 2 -> 4 [] OTHER -> 2

recomputeDerivedStats(s) ==
  [s EXCEPT !.capacity = StorageCapAt(s.stations["storage"]),
            !.maxCrew = CrewCapAt(s.stations["bunks"])]

(***************************************************************************)
(* Characters and the new game state                                       *)
(***************************************************************************)
NoSickness == [active |-> FALSE, endsAt |-> 0]

NoInjury == [severity |-> "none", endsAt |-> 0]

\* makeCharacter with startingGear = a pocket knife (and basic clothes for
\* the player), both equipped; uid0 is the number of uids handed out so far
makeCharacter(isPlayer, stats, uid0) ==
  [isPlayer |-> isPlayer,
   stats |-> stats,
   xp |-> [Wilderness |-> 0, Scavenge |-> 0],
   needs |-> [hunger |-> 80 * NeedScale, thirst |-> 80 * NeedScale,
              morale |-> 70 * NeedScale, health |-> 100 * NeedScale],
   moodlets |-> {},
   conditions |-> [sickness |-> NoSickness, injury |-> NoInjury, downed |-> FALSE],
   idleBehavior |-> "rest",
   pockets |-> [capacity |-> PocketCapacity,
                stacks |-> <<>>,
                instances |-> IF isPlayer
                              THEN <<makeInstance(uid0 + 1, "knife_pocket"), makeInstance(uid0 + 2, "clothes_basic")>>
                              ELSE <<makeInstance(uid0 + 1, "knife_pocket")>>],
   equipment |-> [mainHand |-> uid0 + 1, body |-> IF isPlayer THEN uid0 + 2 ELSE NoUid, utility |-> NoUid]]

PlayerStats == [Wilderness |-> 2, Scavenge |-> 1, Grit |-> 2, Medical |-> 1]

MedicStats == [Wilderness |-> 2, Scavenge |-> 2, Grit |-> 3, Medical |-> 6]

NpcStats(npcTemplateId) ==
  IF npcTemplateId = "npc_scavenger" THEN [Wilderness |-> 2, Scavenge |-> 5, Grit |-> 4, Medical |-> 1]
  ELSE MedicStats

EmptyCrafts == [st \in {"workbench", "stove"} |-> <<>>]

(***************************************************************************)
(* Geohash neighbours.  A hash is the sequence of its characters, each     *)
(* written as its position in GEOHASH_BASE32 (0 for "0", 10 for "b", 31    *)
(* for "z"); the strings of NEIGHBORS and BORDERS are written alike.       *)
(***************************************************************************)
Base32 == 0..31

Dirs == {"top", "bottom", "right", "left"}

\* NEIGHBORS[dir][type]
NEIGHBORS(dir, type) ==
  CASE (dir = "right" /\ type = "even") \/ (dir = "top" /\ type = "odd") ->
         <<10, 11, 0, 1, 14, 15, 4, 5, 2, 3, 8, 9, 6, 7, 12, 13, 26, 27, 16, 17, 30, 31, 20, 21, 18, 19, 24, 25, 22, 23, 28, 29>>
    [] (dir = "right" /\ type = "odd") \/ (dir = "top" /\ type = "even") ->
         <<21, 0, 23, 2, 1, 4, 3, 6, 29, 8, 31, 10, 9, 12, 11, 14, 5, 16, 7, 18, 17, 20, 19, 22, 13, 24, 15, 26, 25, 28, 27, 30>>
    [] (dir = "left" /\ type = "even") \/ (dir = "bottom" /\ type = "odd") ->
         <<2, 3, 8, 9, 6, 7, 12, 13, 10, 11, 0, 1, 14, 15, 4, 5, 18, 19, 24, 25, 22, 23, 28, 29, 26, 27, 16, 17, 30, 31, 20, 21>>
    [] OTHER ->
         <<1, 4, 3, 6, 5, 16, 7, 18, 9, 12, 11, 14, 13, 24, 15, 26, 17, 20, 19, 22, 21, 0, 23, 2, 25, 28, 27, 30, 29, 8, 31, 10>>

\* BORDERS[dir][type]
BORDERS(dir, type) ==
  CASE (dir = "right" /\ type = "even") \/ (dir = "top" /\ type = "odd") -> {10, 11, 14, 15, 26, 27, 30, 31}
    [] (dir = "right" /\ type = "odd") \/ (dir = "top" /\ type = "even") -> {21, 23, 29, 31}
    [] (dir = "left" /\ type = "even") \/ (dir = "bottom" /\ type = "odd") -> {0, 1, 4, 5, 16, 17, 20, 21}
    [] OTHER -> {0, 2, 8, 10}

\* str.indexOf(ch), counted from 0
indexOf(str, ch) == (CHOOSE i \in 1..Len(str) : str[i] = ch) - 1

HashType(hash) == IF Len(hash) % 2 = 1 THEN "odd" ELSE "even"

RECURSIVE geohashAdjacent(_, _)
geohashAdjacent(hash, dir) ==
  IF hash[Len(hash)] \in BORDERS(dir, HashType(hash)) /\ Len(hash) > 1
  THEN Append(geohashAdjacent(SubSeq(hash, 1, Len(hash) - 1), dir),
              indexOf(NEIGHBORS(dir, HashType(hash)), hash[Len(hash)]))
  ELSE Append(SubSeq(hash, 1, Len(hash) - 1),
              indexOf(NEIGHBORS(dir, HashType(hash)), hash[Len(hash)]))

\* the eight neighbours, with ne taken from the wrong side of n
neighborsSkewed(hash) ==
  << geohashAdjacent(hash, "top"), geohashAdjacent(hash, "bottom"),
     geohashAdjacent(hash, "right"), geohashAdjacent(hash, "left"),
     geohashAdjacent(geohashAdjacent(hash, "top"), "left"),
     geohashAdjacent(geohashAdjacent(hash, "top"), "left"),
     geohashAdjacent(geohashAdjacent(hash, "bottom"), "right"),
     geohashAdjacent(geohashAdjacent(hash, "bottom"), "left") >>

\* geohashNeighbors for a hash of any length: n, s, e, w, ne, nw, se, sw
neighbors(hash) ==
  << geohashAdjacent(hash, "top"), geohashAdjacent(hash, "bottom"),
     geohashAdjacent(hash, "right"), geohashAdjacent(hash, "left"),
     geohashAdjacent(geohashAdjacent(hash, "top"), "right"),
     geohashAdjacent(geohashAdjacent(hash, "top"), "left"),
     geohashAdjacent(geohashAdjacent(hash, "bottom"), "right"),
     geohashAdjacent(geohashAdjacent(hash, "bottom"), "left") >>

(***************************************************************************)
(* The world map.  Tile ids are geohashes of precision 7; the tiles drawn  *)
(* here are the default tile geohashEncode(0, 0, 7) and its neighbour to   *)
(* the south.                                                              *)
(***************************************************************************)
TileIds == {"s000000", "kpbpbpb"}

DefaultTile == "s000000"

\* geohashNeighbors: the n, s, e and w neighbour of a tile, in the order in
\* which getOrCreateTile looks at them
geohashNeighbors(tileId) ==
  CASE tileId = "s000000" -> <<"s000002", "kpbpbpb", "s000001", "ebpbpbp">>
    [] tileId = "kpbpbpb" -> <<"s000000", "kpbpbp8", "kpbpbpc", "7zzzzzz">>

\* the first draw of mulberry32(hashStringToUint("WORLD_V01::" + tileId)),
\* as the integer part of draw * 2^20
DrawScale == 2 ^ 20

TileDraw(tileId) ==
  CASE tileId = "s000000" -> 123224
    [] tileId = "kpbpbpb" -> 308696

Biomes ==
  << [id |-> "wild_forest", weight |-> 22, tags |-> {"wild"}],
     [id |-> "riverbed", weight |-> 12, tags |-> {"wet"}],
     [id |-> "overgrown_suburb", weight |-> 20, tags |-> {"ruins", "wild"}],
     [id |-> "collapsed_downtown", weight |-> 14, tags |-> {"ruins", "danger"}],
     [id |-> "industrial_scrap", weight |-> 16, tags |-> {"ruins", "industrial"}],
     [id |-> "desert_highway", weight |-> 16, tags |-> {"dry"}] >>

BiomeTags(biomeId) ==
  Biomes[CHOOSE k \in 1..Len(Biomes) : Biomes[k].id = biomeId].tags

NoTile == [biomeId |-> "none", createdAt |-> 0, tutorialOverlay |-> FALSE, encounter |-> "none"]

\* the biomes of the discovered n, s, e and w neighbours of a tile
NeighborBiomes(world, tileId) ==
  LET disc == SelectSeq(geohashNeighbors(tileId),
                        LAMBDA nt : nt \in TileIds /\ world[nt].biomeId # "none")
  IN [k \in 1..Len(disc) |-> world[disc[k]].biomeId]

\* base weight, 12 for every neighbour of the same biome, 3 for every tag
\* shared with the biome of the first neighbour
Picks(neighborBiomes) ==
  [k \in 1..Len(Biomes) |->
     [id |-> Biomes[k].id,
      w |-> Biomes[k].weight
            + 12 * Cardinality({n \in 1..Len(neighborBiomes) : neighborBiomes[n] = Biomes[k].id})
            + (IF neighborBiomes = <<>> THEN 0
               ELSE 3 * Cardinality(Biomes[k].tags \cap BiomeTags(neighborBiomes[1])))]]

RECURSIVE SumWeights(_)
SumWeights(entries) ==
  IF entries = <<>> THEN 0 ELSE Head(entries).w + SumWeights(Tail(entries))

\* the loop of weightedPick: roll = draw * total is lowered by each weight
\* in turn and the first entry that brings it to 0 or below is returned
RECURSIVE PickFrom(_, _, _)
PickFrom(scaledRoll, entries, passed) ==
  IF Len(entries) = 1 THEN entries[1].id
  ELSE IF scaledRoll <= (passed + entries[1].w) * DrawScale THEN entries[1].id
  ELSE PickFrom(scaledRoll, Tail(entries), passed + entries[1].w)

weightedPick(draw, entries) ==
  IF SumWeights(entries) <= 0 THEN entries[1].id
  ELSE PickFrom(draw * SumWeights(entries), entries, 0)

\* the tutorial overlay of the first tile asked for (meta.tutorialDone stays
\* false: it needs a fishing spear, which nothing modelled makes)
\* the overlay made to go by the encounter instead of the tile's flag
TutorialOverlayAgain(s, tileId) ==
  IF s.firstTileId \notin {"none", tileId} THEN s
  ELSE IF s.world[tileId].encounter # "none" THEN [s EXCEPT !.firstTileId = tileId]
  ELSE pushLog([s EXCEPT !.firstTileId = tileId, !.world[tileId].tutorialOverlay = TRUE,
                          !.world[tileId].encounter = "recruitNpc"],
               "tutorial overlay")

\* the tutorial overlay of getOrCreateTile; meta.tutorialDone stays false,
\* no handler modelled here makes the spear and the hatchet it waits for
TutorialOverlay(s, tileId) ==
  IF s.firstTileId \notin {"none", tileId} THEN s
  ELSE IF s.world[tileId].tutorialOverlay THEN [s EXCEPT !.firstTileId = tileId]
  ELSE pushLog([s EXCEPT !.firstTileId = tileId, !.world[tileId].tutorialOverlay = TRUE,
                          !.world[tileId].encounter = "recruitNpc"],
               "tutorial overlay")

\* getOrCreateTile made to roll the biome again for a tile it already has
getOrCreateTileReroll(s, t, tileId) ==
  TutorialOverlay([s EXCEPT !.world[tileId] =
                     [biomeId |-> weightedPick(TileDraw(tileId),
                                               Picks(NeighborBiomes(s.world, tileId))),
                      createdAt |-> IF @.biomeId = "none" THEN t ELSE @.createdAt,
                      tutorialOverlay |-> @.tutorialOverlay,
                      encounter |-> @.encounter]],
                  tileId)

\* the tile returned is s.world[tileId] of the state returned
getOrCreateTile(s, t, tileId) ==
  TutorialOverlay(IF s.world[tileId].biomeId # "none" THEN s
                  ELSE [s EXCEPT !.world[tileId] =
                          [biomeId |-> weightedPick(TileDraw(tileId),
                                                    Picks(NeighborBiomes(s.world, tileId))),
                           createdAt |-> t,
                           tutorialOverlay |-> FALSE,
                           encounter |-> "none"]],
                  tileId)

\* lines 1800-1802 of resolveJobCompletion: the tile of the job is the last
\* tile entered, or the default tile
CurrentTile(s, t) ==
  getOrCreateTile([s EXCEPT !.lastTileId = IF @ = "none" THEN DefaultTile ELSE @], t,
                  IF s.lastTileId = "none" THEN DefaultTile ELSE s.lastTileId)

\* the state literal of defaultNewGameState, before the starter supplies
BlankState(ts) ==
  [lastSimAt |-> ts, timeOffset |-> 0,
   stations |-> [st \in StationIds |-> 0],
   capacity |-> 0, maxCrew |-> 2,
   rationPrefs |-> {}, stacks |-> <<>>, instances |-> <<>>,
   crew |-> <<makeCharacter(TRUE, PlayerStats, 0)>>,
   jobs |-> << <<>> >>,
   crafts |-> EmptyCrafts,
   world |-> [tid \in TileIds |-> NoTile], lastTileId |-> "none", firstTileId |-> "none",
   log |-> <<>>]

\* defaultNewGameState: the starter supplies are added while the capacity is
\* still the literal 0, and recomputeDerivedStats runs after them
defaultNewGameState(ts) ==
  LET s0 == BlankState(ts)
      s1 == addItemToStorage(s0, "ration_basic", 4, "true").s
      s2 == addItemToStorage(s1, "water_clean", 4, "unset").s
      s3 == addItemToStorage(s2, "water_dirty", 1, "unset").s
      s4 == addItemToStorage(s3, "bottle_empty", 1, "unset").s
  IN pushLog(recomputeDerivedStats(s4), "welcome")

(***************************************************************************)
(* Transfers between storage and pockets, and drops                        *)
(***************************************************************************)
Fail(s, reason) == [ok |-> FALSE, reason |-> reason, s |-> s]

Done(s) == [ok |-> TRUE, reason |-> "", s |-> s]

transferStackRvToChar(s, c, itemId, qty) ==
  IF c \notin 1..Len(s.crew) THEN Fail(s, "bad char")
  ELSE IF s.crew[c].pockets.capacity > 0 /\ countPocketsUsed(s.crew[c]) + qty > s.crew[c].pockets.capacity
       THEN Fail(s, "pockets full")
  ELSE IF ~hasItemInStorage(s, itemId, qty) THEN Fail(s, "not in storage")
  ELSE LET rem == removeItemFromStorage(s, itemId, qty)
       IN IF ~rem.ok THEN Fail(rem.s, "remove failed")
          ELSE LET add == addItemToPockets(rem.s, c, itemId, qty)
               IN IF ~add.ok
                  THEN Fail(addItemToStorage(add.s, itemId, qty, "unset").s, add.reason)
                  ELSE Done(add.s)

transferStackCharToRv(s, c, itemId, qty) ==
  IF c \notin 1..Len(s.crew) THEN Fail(s, "bad char")
  ELSE LET rem == removeItemFromPockets(s, c, itemId, qty)
       IN IF ~rem.ok THEN Fail(rem.s, "not in pockets")
          ELSE LET add == addItemToStorage(rem.s, itemId, qty, "unset")
               IN IF ~add.ok
                  THEN Fail(addItemToPockets(add.s, c, itemId, qty).s, add.reason)
                  ELSE Done(add.s)

transferInstanceRvToChar(s, c, uid) ==
  IF c \notin 1..Len(s.crew) THEN Fail(s, "bad char")
  ELSE IF s.crew[c].pockets.capacity > 0 /\ countPocketsUsed(s.crew[c]) + 1 > s.crew[c].pockets.capacity
       THEN Fail(s, "pockets full")
  ELSE IF UidIndex(s.instances, uid) = 0 THEN Fail(s, "not in storage")
  ELSE LET i == UidIndex(s.instances, uid)
       IN Done([s EXCEPT !.instances = RemoveAt(@, i),
                         !.crew[c].pockets.instances = Append(@, s.instances[i])])

Unequip(equipment, uid) ==
  [slot \in DOMAIN equipment |-> IF equipment[slot] = uid THEN NoUid ELSE equipment[slot]]

transferInstanceCharToRv(s, c, uid) ==
  IF c \notin 1..Len(s.crew) THEN Fail(s, "bad char")
  ELSE IF UidIndex(s.crew[c].pockets.instances, uid) = 0 THEN Fail(s, "not in pockets")
  ELSE LET i == UidIndex(s.crew[c].pockets.instances, uid)
           inst == s.crew[c].pockets.instances[i]
           rest == RemoveAt(s.crew[c].pockets.instances, i)
       IN IF s.capacity > 0 /\ countStorageUsed(s) + 1 > s.capacity
          THEN Fail([s EXCEPT !.crew[c].pockets.instances = Append(rest, inst)], "storage full")
          ELSE Done([s EXCEPT !.crew[c].pockets.instances = rest,
                              !.instances = Append(@, inst),
                              !.crew[c].equipment = Unequip(@, uid)])

dropFromRvStorage(s, itemId, qty) ==
  LET rem == removeItemFromStorage(s, itemId, qty)
  IN IF ~rem.ok THEN Fail(rem.s, "not enough")
     ELSE Done(pushLog(rem.s, "dropped"))

dropInstanceFromRvStorage(s, uid) ==
  IF UidIndex(s.instances, uid) = 0 THEN Fail(s, "not found")
  ELSE Done(pushLog([s EXCEPT !.instances = RemoveAt(@, UidIndex(s.instances, uid))], "dropped"))

(***************************************************************************)
(* Time, needs, moodlets, conditions                                       *)
(***************************************************************************)
gameNow(clk, s) == clk + s.timeOffset

Hour == 3600

\* applyMoodlet: a moodlet replaces the one with the same id
applyMoodlet(char, id, endsAt) ==
  [char EXCEPT !.moodlets = {m \in @ : m.id # id} \cup {[id |-> id, endsAt |-> endsAt]}]

expireTimedEffects(s, t, c) ==
  LET char == s.crew[c]
      sickOver == char.conditions.sickness.active /\ char.conditions.sickness.endsAt <= t
      injOver == char.conditions.injury.severity # "none" /\ char.conditions.injury.endsAt <= t
      s1 == [s EXCEPT !.crew[c].moodlets = {m \in @ : m.endsAt > t}]
      s2 == IF sickOver
            THEN pushLog([s1 EXCEPT !.crew[c].conditions.sickness = NoSickness], "recovered sickness")
            ELSE s1
  IN IF injOver
     THEN pushLog([s2 EXCEPT !.crew[c].conditions.injury = NoInjury], "recovered injury")
     ELSE s2

\* the body of the loop of applyContinuousDrains for crew member c
DrainOne(s, t, elapsed, c) ==
  LET char == s.crew[c]
      isIdleRest == s.jobs[c] = <<>> /\ char.idleBehavior = "rest"
      s1 == [s EXCEPT !.crew[c].needs.hunger = clampNeed(@ - hungerPerSec * elapsed),
                      !.crew[c].needs.thirst = clampNeed(@ - thirstPerSec * elapsed),
                      !.crew[c].needs.morale =
                         IF isIdleRest THEN clampNeed(@ + moraleRecoverPerSecRest * elapsed) ELSE @]
  IN IF char.conditions.downed THEN s ELSE expireTimedEffects(s1, t, c)

RECURSIVE DrainFrom(_, _, _, _)
DrainFrom(s, t, elapsed, c) ==
  IF c > Len(s.crew) THEN s ELSE DrainFrom(DrainOne(s, t, elapsed, c), t, elapsed, c + 1)

\* the drains made to count at most one hour of a longer gap
applyContinuousDrainsCapped(s, t, elapsed) ==
  IF elapsed <= 0 THEN s ELSE DrainFrom(s, t, Min(elapsed, Hour), 1)

applyContinuousDrains(s, t, elapsed) ==
  IF elapsed <= 0 THEN s ELSE DrainFrom(s, t, elapsed, 1)

applySickness(s, t, c, durationSec) ==
  pushLog([s EXCEPT !.crew[c].conditions.sickness = [active |-> TRUE, endsAt |-> t + durationSec]],
          "got sick")

applyInjury(s, t, c, severity, durationSec) ==
  pushLog([s EXCEPT !.crew[c].conditions.injury = [severity |-> severity, endsAt |-> t + durationSec]],
          "injury")

effectiveSkill(char, skillId) ==
  IF skillId \in DOMAIN char.stats
  THEN char.stats[skillId] + (IF skillId \in DOMAIN char.xp THEN char.xp[skillId] \div 100 ELSE 0)
  ELSE 0

(***************************************************************************)
(* Auto-consumption.  sick = the outcome of the Math.random() draw for the *)
(* dirty-water sickness (the chance lies in [0.04, 0.25], so both outcomes *)
(* are possible); sickFood = the outcome of the draw for raw food.         *)
(***************************************************************************)
consumeBestWater(s, t, c, sick) ==
  LET options == SelectSeq(<<"water_clean", "water_dirty">>, LAMBDA id : hasItemInStorage(s, id, 1))
  IN IF options = <<>> THEN [drank |-> FALSE, s |-> s]
     ELSE LET pick == options[1]
              s1 == removeItemFromStorage(s, pick, 1).s
              s2 == [s1 EXCEPT !.crew[c].needs.thirst = clampNeed(@ + WaterThirst(pick))]
              s3 == IF WaterDirty(pick) /\ sick THEN applySickness(s2, t, c, 3 * Hour) ELSE s2
              s4 == IF WaterDirty(pick)
                    THEN [s3 EXCEPT !.crew[c] = applyMoodlet(@, "m_grosswater", t + 1800)]
                    ELSE s3
          IN [drank |-> TRUE, s |-> pushLog(s4, "drank water")]

IsRation(st) == st.qty > 0 /\ ItemCategory(st.itemId) = "food" /\ st.isRationAllowed

\* every food of the catalogue has quality "low", so the stable sort keeps
\* the storage order and the first ration stack is eaten
consumeRationFood(s, t, c, sickFood) ==
  LET rations == SelectSeq(s.stacks, IsRation)
  IN IF rations = <<>> THEN [ate |-> FALSE, s |-> s]
     ELSE LET pick == rations[1].itemId
              s1 == removeItemFromStorage(s, pick, 1).s
              s2 == [s1 EXCEPT !.crew[c].needs.hunger = clampNeed(@ + FoodHunger(pick)),
                               !.crew[c].needs.morale = clampNeed(@ + FoodMorale(pick))]
              s3 == [s2 EXCEPT !.crew[c] = applyMoodlet(@, "m_slop", t + 2 * Hour)]
              s4 == IF FoodRaw(pick) /\ sickFood THEN applySickness(s3, t, c, 2 * Hour) ELSE s3
          IN [ate |-> TRUE, s |-> pushLog(s4, "ate rations")]

\* the auto-drink made to wait until thirst is below the threshold
TryDrinkBelow(s, t, c, sick) ==
  IF s.crew[c].needs.thirst < autoConsumeThreshold
  THEN consumeBestWater(s, t, c, sick)
  ELSE [drank |-> TRUE, s |-> s]

\* the auto-drink of maybeAutoConsume: at or below the threshold, drink
TryDrink(s, t, c, sick) ==
  IF s.crew[c].needs.thirst <= autoConsumeThreshold
  THEN consumeBestWater(s, t, c, sick)
  ELSE [drank |-> TRUE, s |-> s]

AfterDrink(w, t, c) ==
  IF w.drank THEN w.s
  ELSE [w.s EXCEPT !.crew[c] = applyMoodlet(@, "m_parched", t + Hour)]

\* the auto-eat of maybeAutoConsume (rations only)
TryEat(s, t, c, sick) ==
  IF s.crew[c].needs.hunger <= autoConsumeThreshold
  THEN consumeRationFood(s, t, c, sick)
  ELSE [ate |-> TRUE, s |-> s]

AfterEat(f, t, c) ==
  IF f.ate THEN f.s
  ELSE [f.s EXCEPT !.crew[c] = applyMoodlet(@, "m_hungry", t + Hour)]

maybeAutoConsume(s, t, c, sick) ==
  IF s.crew[c].conditions.downed THEN s
  ELSE AfterEat(TryEat(AfterDrink(TryDrink(s, t, c, sick), t, c), t, c, sick), t, c)

RECURSIVE AutoConsumeFrom(_, _, _, _)
AutoConsumeFrom(s, t, c, sick) ==
  IF c > Len(s.crew) THEN s
  ELSE AutoConsumeFrom(maybeAutoConsume(s, t, c, sick), t, c + 1, sick)

(***************************************************************************)
(* Jobs (FALLBACK_DATA.jobs and the injected special jobs)                 *)
(***************************************************************************)
\* Storage panel, Feed: sickFood is the outcome of the Math.random() draw
\* for raw food
consumeFoodFromStorage(s, t, c, itemId, sickFood) ==
  IF ~hasItemInStorage(s, itemId, 1) THEN Fail(s, "not in storage")
  ELSE IF ItemCategory(itemId) # "food" THEN Fail(s, "not food")
  ELSE LET s1 == removeItemFromStorage(s, itemId, 1).s
           s2 == [s1 EXCEPT !.crew[c].needs.hunger = clampNeed(@ + FoodHunger(itemId)),
                            !.crew[c].needs.morale = clampNeed(@ + FoodMorale(itemId))]
           s3 == [s2 EXCEPT !.crew[c] = applyMoodlet(@, "m_slop", t + 2 * Hour)]
           s4 == IF FoodRaw(itemId) /\ sickFood THEN applySickness(s3, t, c, 2 * Hour) ELSE s3
       IN Done(pushLog(s4, "ate"))

\* Storage panel, Drink: sick is the outcome of the draw for dirty water
consumeWaterFromStorage(s, t, c, itemId, sick) ==
  IF ~hasItemInStorage(s, itemId, 1) THEN Fail(s, "not in storage")
  ELSE IF ItemCategory(itemId) # "water" THEN Fail(s, "not water")
  ELSE LET s1 == removeItemFromStorage(s, itemId, 1).s
           s2 == [s1 EXCEPT !.crew[c].needs.thirst = clampNeed(@ + WaterThirst(itemId))]
           s3 == IF WaterDirty(itemId) /\ sick THEN applySickness(s2, t, c, 3 * Hour) ELSE s2
           s4 == IF WaterDirty(itemId)
                 THEN [s3 EXCEPT !.crew[c] = applyMoodlet(@, "m_grosswater", t + 1800)]
                 ELSE s3
       IN Done(pushLog(s4, "drank"))

JobIds == {"forage", "trap", "scavenge", "gather_water", "explore"}

Paces == {"safe", "normal", "push"}

JobBaseSec(jobId) == CASE jobId = "trap" -> 1800 [] jobId = "scavenge" -> 1500 [] OTHER -> 600

JobToolTag(jobId) ==
  CASE jobId = "forage" -> "cutting" [] jobId = "trap" -> "trap" [] jobId = "scavenge" -> "chopping"
    [] OTHER -> "none"

JobRequiresItem(jobId) == IF jobId = "trap" THEN "trap_simple" ELSE "none"

JobHasRisk(jobId) == jobId \in {"forage", "trap", "scavenge"}

\* risk.sickness is above 0 for scavenge alone
JobSickRisk(jobId) == jobId = "scavenge"

JobXpSkill(jobId) == IF jobId = "scavenge" THEN "Scavenge" ELSE "Wilderness"

JobStrenuous(jobId) == jobId = "scavenge"

\* job.yields as a sequence of [id, min, max]
JobYields(jobId) ==
  CASE jobId = "forage" -> << [id |-> "stick", min |-> 2, max |-> 6],
                              [id |-> "stone", min |-> 1, max |-> 4],
                              [id |-> "fiber", min |-> 0, max |-> 4] >>
    [] jobId = "trap" -> << [id |-> "meat_raw", min |-> 0, max |-> 3] >>
    [] jobId = "scavenge" -> << [id |-> "scrap_metal", min |-> 2, max |-> 7],
                                [id |-> "wiring", min |-> 0, max |-> 2] >>
    [] OTHER -> <<>>

\* Math.round(baseSec * paceMultipliers(pace).dur), in seconds
PacedDuration(jobId, pace) ==
  CASE pace = "safe" -> (JobBaseSec(jobId) * 110 + 50) \div 100
    [] pace = "push" -> (JobBaseSec(jobId) * 85 + 50) \div 100
    [] OTHER -> JobBaseSec(jobId)

NoTime == 0 - 1

NoMeta == [special |-> "none", actionJobId |-> "none", waterQty |-> 0, rationsConsumed |-> <<>>]

getEquippedTool(char, toolTag) ==
  LET i == UidIndex(char.pockets.instances, char.equipment.mainHand)
  IN IF char.equipment.mainHand = NoUid \/ i = 0 THEN "none"
     ELSE IF ToolTagOf(char.pockets.instances[i].itemId) = "none" THEN "none"
     ELSE IF toolTag # "none" /\ ToolTagOf(char.pockets.instances[i].itemId) # toolTag THEN "none"
     ELSE char.pockets.instances[i].itemId

\* line 1686 of startJobForChar reads recipe.inputs, but no binding named
\* recipe is in scope of that function: evaluating the entry literal raises
\* a ReferenceError before anything is pushed
recipeInScope == FALSE

Threw(s) == [ok |-> FALSE, threw |-> TRUE, reason |-> "ReferenceError", s |-> s]

Refused(s, reason) == [ok |-> FALSE, threw |-> FALSE, reason |-> reason, s |-> s]

Accepted(s) == [ok |-> TRUE, threw |-> FALSE, reason |-> "", s |-> s]

\* opts.durationMs is optDuration (0 when the caller gave none)
startJobForChar(s, t, c, jobId, pace, optDuration, meta) ==
  IF c \notin 1..Len(s.crew) THEN Refused(s, "bad char")
  ELSE IF s.crew[c].conditions.downed THEN Refused(s, "downed")
  ELSE IF jobId \notin JobIds THEN Refused(s, "bad job")
  ELSE IF JobRequiresItem(jobId) # "none" /\ ~hasItemInStorage(s, JobRequiresItem(jobId), 1)
       THEN Refused(s, "requires item")
  ELSE IF ~recipeInScope THEN Threw(s)
  ELSE LET entry == [id |-> freshUid(s), jobId |-> jobId, pace |-> pace,
                     createdAt |-> t,
                     startAt |-> IF s.jobs[c] = <<>> THEN t ELSE NoTime,
                     durationMs |-> IF optDuration # 0 THEN Max(1, optDuration) ELSE PacedDuration(jobId, pace),
                     toolOk |-> JobToolTag(jobId) = "none" \/ getEquippedTool(s.crew[c], JobToolTag(jobId)) # "none",
                     meta |-> meta]
       IN Accepted(pushLog([s EXCEPT !.jobs[c] = Append(@, entry)], "queued"))

EntryIndex(q, id) ==
  IF \E i \in 1..Len(q) : q[i].id = id THEN CHOOSE i \in 1..Len(q) : q[i].id = id ELSE 0

\* the loop of cancelQueuedJob over removed.meta.rationsConsumed; the result
\* of addItemToPockets is not looked at
RECURSIVE RestoreRations(_, _, _)
RestoreRations(s, c, rations) ==
  IF rations = <<>> THEN s
  ELSE RestoreRations(addItemToPockets(s, c, Head(rations).itemId, Head(rations).qty).s, c, Tail(rations))

\* cancelQueuedJob without line 1711: the entry after a cancelled head is
\* left waiting
cancelQueuedJobNoRestart(s, t, c, entryId) ==
  IF c \notin 1..Len(s.jobs) \/ EntryIndex(s.jobs[c], entryId) = 0 THEN Fail(s, "not found")
  ELSE Done(pushLog(RestoreRations([s EXCEPT !.jobs[c] = RemoveAt(@, EntryIndex(s.jobs[c], entryId))], c,
                                   s.jobs[c][EntryIndex(s.jobs[c], entryId)].meta.rationsConsumed),
                    "cancelled job"))

cancelQueuedJob(s, t, c, entryId) ==
  IF c \notin 1..Len(s.jobs) \/ EntryIndex(s.jobs[c], entryId) = 0 THEN Fail(s, "not found")
  ELSE LET i == EntryIndex(s.jobs[c], entryId)
           removed == s.jobs[c][i]
           q1 == RemoveAt(s.jobs[c], i)
           q2 == IF i = 1 /\ q1 # <<>> /\ q1[1].startAt = NoTime
                 THEN [q1 EXCEPT ![1].startAt = t] ELSE q1
           s1 == [s EXCEPT !.jobs[c] = q2]
           s2 == RestoreRations(s1, c, removed.meta.rationsConsumed)
       IN Done(pushLog(s2, "cancelled job"))

clearJobQueue(s, c) ==
  IF c \notin 1..Len(s.jobs) \/ s.jobs[c] = <<>> THEN Fail(s, "empty")
  ELSE Done(pushLog([s EXCEPT !.jobs[c] = <<>>], "cleared queue"))

(***************************************************************************)
(* Job resolution.  Every rng() draw of resolveJobCompletion is a field of *)
(* the record roll: TRUE = the draw is below the chance it is compared     *)
(* with (a draw against a chance of 0 never is); amt picks the randInt     *)
(* result of the yield rolls.                                              *)
(***************************************************************************)
Rolls ==
  [success : BOOLEAN, extraInjury : BOOLEAN, major : BOOLEAN, minor : BOOLEAN,
   sick : BOOLEAN, wear : BOOLEAN, down : BOOLEAN, amt : {"min", "max"}, dirtySick : BOOLEAN]

getToolTierForJob(char, jobId) ==
  IF JobToolTag(jobId) = "none" THEN 0
  ELSE IF getEquippedTool(char, JobToolTag(jobId)) = "none" THEN 0
  ELSE ToolTierOf(getEquippedTool(char, JobToolTag(jobId)))

\* Math.round(base * growth^level) for base 100 and growth 1.35
xpToNext(level) ==
  CASE level = 0 -> 100 [] level = 1 -> 135 [] level = 2 -> 182 [] level = 3 -> 246
    [] level = 4 -> 332 [] level = 5 -> 448 [] level = 6 -> 605 [] OTHER -> 817

RECURSIVE LevelUp(_, _, _)
LevelUp(char, skill, ups) ==
  IF char.xp[skill] >= xpToNext(char.stats[skill]) /\ ups < 25
  THEN LevelUp([char EXCEPT !.xp[skill] = @ - xpToNext(char.stats[skill]),
                            !.stats[skill] = @ + 1], skill, ups + 1)
  ELSE [char |-> char, ups |-> ups]

\* one log line for every skill that went up
LevelUpSkill(s, c, skill) ==
  IF LevelUp(s.crew[c], skill, 0).ups > 0
  THEN pushLog([s EXCEPT !.crew[c] = LevelUp(s.crew[c], skill, 0).char], "leveled up")
  ELSE s

processLevelUps(s, c) == LevelUpSkill(LevelUpSkill(s, c, "Wilderness"), c, "Scavenge")

\* downCharacter reviving without a serum in storage
downCharacterUnchecked(s, t, c) ==
  LET s1 == pushLog([s EXCEPT !.crew[c].conditions.downed = TRUE], "downed")
      s2 == removeItemFromStorage(s1, "revive_serum", 1).s
      s3 == [s2 EXCEPT !.crew[c] =
               [applyMoodlet(@, "m_revived", t + 6 * Hour)
                  EXCEPT !.conditions.downed = FALSE, !.needs.health = 60 * NeedScale]]
  IN pushLog(s3, "revived")

downCharacter(s, t, c) ==
  LET s1 == pushLog([s EXCEPT !.crew[c].conditions.downed = TRUE], "downed")
  IN IF hasItemInStorage(s1, "revive_serum", 1)
     THEN LET s2 == removeItemFromStorage(s1, "revive_serum", 1).s
              s3 == [s2 EXCEPT !.crew[c] =
                       [applyMoodlet(@, "m_revived", t + 6 * Hour)
                          EXCEPT !.conditions.downed = FALSE, !.needs.health = 60 * NeedScale]]
          IN pushLog(s3, "revived")
     ELSE s1

\* the yield loops going on to the next yield after a refused deposit
RECURSIVE DepositYieldsOn(_, _, _, _, _, _, _)
DepositYieldsOn(s, yields, amt, num, den, warn, got) ==
  IF yields = <<>> THEN [s |-> s, got |-> got]
  ELSE LET y == Head(yields)
           rolled == IF amt = "min" THEN y.min ELSE y.max
           qty == Max(0, (rolled * num) \div den)
       IN IF qty = 0 THEN DepositYieldsOn(s, Tail(yields), amt, num, den, warn, got)
          ELSE LET add == addItemToStorage(s, y.id, qty, "unset")
               IN IF add.ok THEN DepositYieldsOn(add.s, Tail(yields), amt, num, den, warn, got + 1)
                  ELSE DepositYieldsOn(pushLog(add.s, warn), Tail(yields), amt, num, den, warn, got)

\* the yield loops: qty = floor(rolled * num / den); a refused deposit ends
\* the loop.  Returns the state and the number of deposits made.
RECURSIVE DepositYields(_, _, _, _, _, _, _)
DepositYields(s, yields, amt, num, den, warn, got) ==
  IF yields = <<>> THEN [s |-> s, got |-> got]
  ELSE LET y == Head(yields)
           rolled == IF amt = "min" THEN y.min ELSE y.max
           qty == Max(0, (rolled * num) \div den)
       IN IF qty = 0 THEN DepositYields(s, Tail(yields), amt, num, den, warn, got)
          ELSE LET add == addItemToStorage(s, y.id, qty, "unset")
               IN IF add.ok THEN DepositYields(add.s, Tail(yields), amt, num, den, warn, got + 1)
                  ELSE [s |-> pushLog(add.s, warn), got |-> got]

\* 100 * clamp(1 + toolTier*0.15 + skill*0.02, 0.5, 3.5)
YieldMult100(toolTier, skill) == clamp(100 + 15 * toolTier + 2 * skill, 50, 350)

\* the three branches on jEntry.meta.special.  applyInjury(..., "minor") of
\* the explore branch passes no name, and hashStringToUint(undefined) raises
\* a TypeError while the injury record is being built.
ResolveBranch(s, t, c, jEntry, roll) ==
  LET char == s.crew[c]
  IN CASE jEntry.meta.special = "gather_water" ->
            IF jEntry.meta.waterQty > 0
            THEN LET add == addItemToStorage(s, "water_dirty", jEntry.meta.waterQty, "unset")
                 IN [s |-> pushLog(add.s, IF add.ok THEN "gathered water" ELSE "storage full: water"),
                     got |-> 0, threw |-> FALSE]
            ELSE [s |-> s, got |-> 0, threw |-> FALSE]
       [] jEntry.meta.special = "explore" ->
            LET actionJob == jEntry.meta.actionJobId
                tier == getToolTierForJob(char, IF actionJob \in JobIds THEN actionJob ELSE jEntry.jobId)
                wild == effectiveSkill(char, "Wilderness")
                grit == effectiveSkill(char, "Grit")
                loot == roll.success /\ actionJob \in JobIds /\ JobYields(actionJob) # <<>>
                d == IF loot
                     THEN DepositYields(s, JobYields(actionJob), roll.amt,
                                        YieldMult100(tier, wild) * (110 + grit), 10000,
                                        "storage full: exploration loot", 0)
                     ELSE [s |-> s, got |-> 0]
                s1 == pushLog(d.s, IF loot THEN "explored with loot" ELSE "explored nothing")
            IN [s |-> s1, got |-> 0, threw |-> roll.extraInjury]
       [] OTHER ->
            LET tier == getToolTierForJob(char, jEntry.jobId)
                skill == effectiveSkill(char, JobXpSkill(jEntry.jobId))
                d == DepositYields(s, JobYields(jEntry.jobId), roll.amt, YieldMult100(tier, skill), 100,
                                   "storage full: yields", 0)
            IN [s |-> IF d.got > 0 THEN pushLog(d.s, "gained") ELSE d.s, got |-> d.got, threw |-> FALSE]

\* the risk outcomes with the minor-injury roll made whatever the major roll gave
ResolveOutcomesBothRolls(s, t, c, jEntry, roll, got) ==
  LET jobId == jEntry.jobId
      risky == JobHasRisk(jobId)
      char0 == s.crew[c]
      tool == IF JobToolTag(jobId) = "none" THEN "none" ELSE getEquippedTool(char0, JobToolTag(jobId))
      toolTier == IF tool # "none" THEN ToolTierOf(tool) ELSE IF jEntry.toolOk THEN 1 ELSE 0
      hadInjury == char0.conditions.injury.severity # "none"
      s0 == IF ~hadInjury /\ risky /\ roll.major THEN applyInjury(s, t, c, "major", 8 * Hour) ELSE s
      s1 == IF ~hadInjury /\ risky /\ roll.minor THEN applyInjury(s0, t, c, "minor", 2 * Hour) ELSE s0
      s2 == IF ~s1.crew[c].conditions.sickness.active /\ JobSickRisk(jobId) /\ roll.sick
            THEN applySickness(s1, t, c, 3 * Hour)
            ELSE s1
      wearAmt == CASE jEntry.pace = "safe" -> 2 [] jEntry.pace = "push" -> 4 [] OTHER -> 3
      ti == UidIndex(char0.pockets.instances, char0.equipment.mainHand)
      s3 == IF tool # "none" /\ risky /\ roll.wear
            THEN LET worn == [s2 EXCEPT !.crew[c].pockets.instances[ti].durability = Max(0, @ - wearAmt)]
                 IN IF worn.crew[c].pockets.instances[ti].durability <= 0
                    THEN [pushLog(worn, "tool broke") EXCEPT !.crew[c] = applyMoodlet(@, "m_brokentool", t + Hour)]
                    ELSE worn
            ELSE s2
      xpGain == 10 + 2 * toolTier + ((jEntry.durationMs + 15) \div 30)
      s4 == processLevelUps(pushLog([s3 EXCEPT !.crew[c].xp[JobXpSkill(jobId)] = @ + xpGain], "xp"), c)
      s5 == IF got > 0 THEN [s4 EXCEPT !.crew[c].needs.morale = clampNeed(@ + NeedScale)] ELSE s4
      ch == s5.crew[c]
      dangerScore == (IF ch.needs.hunger < 10 * NeedScale THEN 1 ELSE 0)
                     + (IF ch.needs.thirst < 10 * NeedScale THEN 1 ELSE 0)
                     + (IF ch.conditions.injury.severity = "major" THEN 2 ELSE 0)
                     + (IF ch.conditions.sickness.active THEN 1 ELSE 0)
      s6 == IF ~ch.conditions.downed /\ dangerScore >= 4 /\ roll.down THEN downCharacter(s5, t, c) ELSE s5
  IN pushLog(s6, "finished job")

\* risk outcomes, tool wear, XP, morale, downed check and the final log line
ResolveOutcomes(s, t, c, jEntry, roll, got) ==
  LET jobId == jEntry.jobId
      risky == JobHasRisk(jobId)
      char0 == s.crew[c]
      tool == IF JobToolTag(jobId) = "none" THEN "none" ELSE getEquippedTool(char0, JobToolTag(jobId))
      toolTier == IF tool # "none" THEN ToolTierOf(tool) ELSE IF jEntry.toolOk THEN 1 ELSE 0
      hadInjury == char0.conditions.injury.severity # "none"
      s1 == IF ~hadInjury /\ risky /\ roll.major THEN applyInjury(s, t, c, "major", 8 * Hour)
            ELSE IF ~hadInjury /\ risky /\ roll.minor THEN applyInjury(s, t, c, "minor", 2 * Hour)
            ELSE s
      s2 == IF ~s1.crew[c].conditions.sickness.active /\ JobSickRisk(jobId) /\ roll.sick
            THEN applySickness(s1, t, c, 3 * Hour)
            ELSE s1
      wearAmt == CASE jEntry.pace = "safe" -> 2 [] jEntry.pace = "push" -> 4 [] OTHER -> 3
      ti == UidIndex(char0.pockets.instances, char0.equipment.mainHand)
      s3 == IF tool # "none" /\ risky /\ roll.wear
            THEN LET worn == [s2 EXCEPT !.crew[c].pockets.instances[ti].durability = Max(0, @ - wearAmt)]
                 IN IF worn.crew[c].pockets.instances[ti].durability <= 0
                    THEN [pushLog(worn, "tool broke") EXCEPT !.crew[c] = applyMoodlet(@, "m_brokentool", t + Hour)]
                    ELSE worn
            ELSE s2
      xpGain == 10 + 2 * toolTier + ((jEntry.durationMs + 15) \div 30)
      s4 == processLevelUps(pushLog([s3 EXCEPT !.crew[c].xp[JobXpSkill(jobId)] = @ + xpGain], "xp"), c)
      s5 == IF got > 0 THEN [s4 EXCEPT !.crew[c].needs.morale = clampNeed(@ + NeedScale)] ELSE s4
      ch == s5.crew[c]
      dangerScore == (IF ch.needs.hunger < 10 * NeedScale THEN 1 ELSE 0)
                     + (IF ch.needs.thirst < 10 * NeedScale THEN 1 ELSE 0)
                     + (IF ch.conditions.injury.severity = "major" THEN 2 ELSE 0)
                     + (IF ch.conditions.sickness.active THEN 1 ELSE 0)
      s6 == IF ~ch.conditions.downed /\ dangerScore >= 4 /\ roll.down THEN downCharacter(s5, t, c) ELSE s5
  IN pushLog(s6, "finished job")

\* the job drain per second of duration: rate * (strain - 0.2), strain 1.0
JobHungerPerSec == 20

JobThirstPerSec == 28

\* the same for a strenuous job: strain = jobStrenuousDrainMultiplier = 2.0
StrenuousHungerPerSec == 45

StrenuousThirstPerSec == 63

\* the job drain of resolveJobCompletion
JobDrain(s, c, jEntry) ==
  [s EXCEPT !.crew[c].needs.hunger =
               clampNeed(@ - (IF JobStrenuous(jEntry.jobId) THEN StrenuousHungerPerSec ELSE JobHungerPerSec)
                               * jEntry.durationMs),
            !.crew[c].needs.thirst =
               clampNeed(@ - (IF JobStrenuous(jEntry.jobId) THEN StrenuousThirstPerSec ELSE JobThirstPerSec)
                               * jEntry.durationMs)]

\* after the branch b on meta.special: an exception leaves at once
AfterBranch(b, t, c, jEntry, roll) ==
  IF b.threw THEN [s |-> b.s, threw |-> TRUE]
  ELSE [s |-> ResolveOutcomes(b.s, t, c, jEntry, roll, b.got), threw |-> FALSE]

resolveJobCompletion(s, t, c, jEntry, roll) ==
  AfterBranch(ResolveBranch(maybeAutoConsume(JobDrain(CurrentTile(s, t), c, jEntry), t, c, roll.dirtySick),
                            t, c, jEntry, roll),
              t, c, jEntry, roll)

(***************************************************************************)
(* tickJobQueues.  The accumulator a carries the state, the last safety    *)
(* snapshot written, whether an exception is propagating, the number of    *)
(* entries resolved so far in this handler and the idle-cycle counter.     *)
(* rolls[k] holds the draws of the k-th resolution of the handler (the     *)
(* last element serves every later one).                                   *)
(***************************************************************************)
RollAt(rolls, k) == rolls[Min(k, Len(rolls))]

\* q.shift() and the stamp of the new head with the end of the entry before
PopJob(s, c, endsAt) ==
  [s EXCEPT !.jobs[c] = IF Tail(@) # <<>> THEN [Tail(@) EXCEPT ![1].startAt = endsAt] ELSE Tail(@)]

\* the accumulator after entry jEntry was resolved into state s2
JobResolved(a, s2, faulted, c, jEntry) ==
  [a EXCEPT !.s = s2, !.snap = s2, !.k = @ + 1,
            !.resolved = Append(@, [id |-> jEntry.id, c |-> c, startAt |-> jEntry.startAt,
                                    endsAt |-> jEntry.startAt + jEntry.durationMs,
                                    faulted |-> faulted])]

\* the catch of the completion loop logs the error and goes on
AfterResolve(a, r, c, jEntry) ==
  JobResolved(a, PopJob(IF r.threw THEN pushLog(r.s, "ERROR: job completion failed") ELSE r.s,
                        c, jEntry.startAt + jEntry.durationMs),
              r.threw, c, jEntry)

\* the completion loop made to stop at the first entry whose resolution
\* raised an exception
RECURSIVE CompleteJobsStopAtFault(_, _, _, _)
CompleteJobsStopAtFault(a, t, c, rolls) ==
  IF \/ a.s.jobs[c] = <<>>
     \/ a.s.jobs[c][1].startAt = NoTime
     \/ a.s.jobs[c][1].startAt + a.s.jobs[c][1].durationMs > t
  THEN a
  ELSE LET n == AfterResolve(a, resolveJobCompletion(a.s, t, c, a.s.jobs[c][1], RollAt(rolls, a.k + 1)),
                             c, a.s.jobs[c][1])
       IN IF n.resolved[Len(n.resolved)].faulted THEN n ELSE CompleteJobsStopAtFault(n, t, c, rolls)

\* the completion loop made to resolve a started head before it has ended
RECURSIVE CompleteJobsEarly(_, _, _, _)
CompleteJobsEarly(a, t, c, rolls) ==
  IF a.s.jobs[c] = <<>> \/ a.s.jobs[c][1].startAt = NoTime
  THEN a
  ELSE CompleteJobsEarly(AfterResolve(a, resolveJobCompletion(a.s, t, c, a.s.jobs[c][1], RollAt(rolls, a.k + 1)),
                                      c, a.s.jobs[c][1]),
                         t, c, rolls)

RECURSIVE CompleteJobs(_, _, _, _)
CompleteJobs(a, t, c, rolls) ==
  IF \/ a.s.jobs[c] = <<>>
     \/ a.s.jobs[c][1].startAt = NoTime
     \/ a.s.jobs[c][1].startAt + a.s.jobs[c][1].durationMs > t
  THEN a
  ELSE CompleteJobs(AfterResolve(a, resolveJobCompletion(a.s, t, c, a.s.jobs[c][1], RollAt(rolls, a.k + 1)),
                                 c, a.s.jobs[c][1]),
                    t, c, rolls)

\* a head that waits starts now
StampHead(a, t, c) ==
  IF a.s.jobs[c] # <<>> /\ a.s.jobs[c][1].startAt = NoTime
  THEN [a EXCEPT !.s.jobs[c][1].startAt = t]
  ELSE a

\* st is what the idle startJobForChar returned (Accepted when none was made)
AfterIdle(a, st, idle, t, c, rolls) ==
  IF st.threw THEN [a EXCEPT !.threw = TRUE]
  ELSE CompleteJobs(StampHead([a EXCEPT !.s = st.s, !.idleCycles = IF idle THEN @ + 1 ELSE @,
                                        !.snap = IF idle /\ st.ok THEN st.s ELSE @],
                              t, c),
                    t, c, rolls)

IdleDue(a, c) ==
  /\ a.s.jobs[c] = <<>>
  /\ a.s.crew[c].idleBehavior \notin {"none", "rest"}
  /\ a.idleCycles < idleMaxCyclesPerSim

TickJobsOf(a, t, c, rolls) ==
  IF a.s.crew[c].conditions.downed THEN a
  ELSE AfterIdle(a,
                 IF IdleDue(a, c)
                 THEN startJobForChar(a.s, t, c, a.s.crew[c].idleBehavior, "safe", 0, NoMeta)
                 ELSE Accepted(a.s),
                 IdleDue(a, c), t, c, rolls)

RECURSIVE TickJobsFrom(_, _, _, _)
TickJobsFrom(a, t, c, rolls) ==
  IF c > Len(a.s.crew) \/ a.threw THEN a
  ELSE TickJobsFrom(TickJobsOf(a, t, c, rolls), t, c + 1, rolls)

tickJobQueues(a, t, rolls) == TickJobsFrom([a EXCEPT !.idleCycles = 0], t, 1, rolls)

(***************************************************************************)
(* Views of the inventories used to compare two states: the quantity of    *)
(* every item in shared storage, and in the pockets of a crew member       *)
(***************************************************************************)
StorageQty(s) ==
  [i \in ItemIds |-> IF IsInstanceItem(i) THEN CountInstances(s.instances, i) ELSE QtyOf(s.stacks, i)]

PocketQty(s, c) ==
  [i \in ItemIds |-> IF IsInstanceItem(i) THEN CountInstances(s.crew[c].pockets.instances, i)
                     ELSE QtyOf(s.crew[c].pockets.stacks, i)]

(***************************************************************************)
(* The program state                                                       *)
(*   clock     nowReal(), in seconds                                       *)
(*   state     the game state (see the field list above)                   *)
(*   snapshot  the copy of the state last written by safetySnapshot        *)
(*   hist      what the latest handler was, and what it returned           *)
(*   stock     how far down its list of spawns the admin has gone, and how *)
(*             many saves were imported; the outputs that the recipes file *)
(*             loaded at boot gives the bandage recipe (<<>> when the file *)
(*             is missing and the built-in recipes are used)               *)
(***************************************************************************)
VARIABLES clock, state, snapshot, hist, stock

vars == <<clock, state, snapshot, hist, stock>>

(***************************************************************************)
(* Crafting (FALLBACK_DATA.recipes)                                        *)
(***************************************************************************)
RecipeIds == {"cordage", "bandage", "boil_water"}

CraftStations == {"workbench", "stove"}

RecipeStation(recipeId) == IF recipeId = "boil_water" THEN "stove" ELSE "workbench"

RecipeTimeSec(recipeId) == IF recipeId = "cordage" THEN 60 ELSE 120

\* recipe.inputs as a sequence of [id, qty]
RecipeInputs(recipeId) ==
  CASE recipeId = "cordage" -> << [id |-> "fiber", qty |-> 3] >>
    [] recipeId = "bandage" -> << [id |-> "fiber", qty |-> 4] >>
    [] recipeId = "boil_water" -> << [id |-> "water_dirty", qty |-> 1] >>
    [] OTHER -> <<>>

\* what resolveCraftCompletion adds: special.makeItem for cordage, else the
\* entries of recipe.outputs with a non-zero qty
RecipeOutputs(recipeId) ==
  CASE recipeId = "cordage" -> << [id |-> "cordage_item", qty |-> 1] >>
    [] recipeId = "bandage" -> << [id |-> "bandage", qty |-> 1] >>
    [] recipeId = "boil_water" -> << [id |-> "water_clean", qty |-> 1] >>
    [] OTHER -> <<>>

\* loadData: recipes.json when it can be fetched, else the built-in list
LoadedOutputs(recipeId) ==
  IF recipeId = "bandage" /\ stock.outputs # <<>> THEN stock.outputs ELSE RecipeOutputs(recipeId)

canCraftRecipe(s, recipeId) ==
  \A i \in 1..Len(RecipeInputs(recipeId)) :
     hasItemInStorage(s, RecipeInputs(recipeId)[i].id, RecipeInputs(recipeId)[i].qty)

RECURSIVE RemoveInputs(_, _)
RemoveInputs(s, inputs) ==
  IF inputs = <<>> THEN s
  ELSE RemoveInputs(removeItemFromStorage(s, Head(inputs).id, Head(inputs).qty).s, Tail(inputs))

startCraftKeepInputs(s, t, recipeId) ==
  IF recipeId \notin RecipeIds THEN Fail(s, "bad recipe")
  ELSE IF ~canCraftRecipe(s, recipeId) THEN Fail(s, "missing input")
  ELSE LET st == RecipeStation(recipeId)
           entry == [id |-> freshUid(s), recipeId |-> recipeId, createdAt |-> t,
                     startAt |-> IF s.crafts[st] = <<>> THEN t ELSE NoTime,
                     durationMs |-> RecipeTimeSec(recipeId)]
       IN Done(pushLog([s EXCEPT !.crafts[st] = Append(@, entry)], "crafting started"))

\* startCraft giving every new entry the current time as its start
startCraftStartsAll(s, t, recipeId) ==
  IF recipeId \notin RecipeIds THEN Fail(s, "bad recipe")
  ELSE IF ~canCraftRecipe(s, recipeId) THEN Fail(s, "missing input")
  ELSE LET s1 == RemoveInputs(s, RecipeInputs(recipeId))
           st == RecipeStation(recipeId)
           entry == [id |-> freshUid(s1), recipeId |-> recipeId, createdAt |-> t,
                     startAt |-> t, durationMs |-> RecipeTimeSec(recipeId)]
       IN Done(pushLog([s1 EXCEPT !.crafts[st] = Append(@, entry)], "crafting started"))

startCraft(s, t, recipeId) ==
  IF recipeId \notin RecipeIds THEN Fail(s, "bad recipe")
  ELSE IF ~canCraftRecipe(s, recipeId) THEN Fail(s, "missing input")
  ELSE LET s1 == RemoveInputs(s, RecipeInputs(recipeId))
           st == RecipeStation(recipeId)
           entry == [id |-> freshUid(s1), recipeId |-> recipeId, createdAt |-> t,
                     startAt |-> IF s1.crafts[st] = <<>> THEN t ELSE NoTime,
                     durationMs |-> RecipeTimeSec(recipeId)]
       IN Done(pushLog([s1 EXCEPT !.crafts[st] = Append(@, entry)], "crafting started"))

\* the refund loop of cancelCraftEntry and the output loop of
\* resolveCraftCompletion: each item is tried, a refused one is logged
RECURSIVE AddEach(_, _, _)
AddEach(s, items, warn) ==
  IF items = <<>> THEN s
  ELSE LET add == addItemToStorage(s, Head(items).id, Head(items).qty, "unset")
       IN AddEach(IF add.ok THEN add.s ELSE pushLog(add.s, warn), Tail(items), warn)

\* the craft entries carry no inputs field, so entry.inputs || recipe.inputs
\* is the recipe's list
cancelCraftEntryNoRefund(s, t, stationId, entryId) ==
  IF stationId \notin CraftStations \/ s.crafts[stationId] = <<>> THEN Fail(s, "empty")
  ELSE IF EntryIndex(s.crafts[stationId], entryId) = 0 THEN Fail(s, "not found")
  ELSE LET i == EntryIndex(s.crafts[stationId], entryId)
           q1 == RemoveAt(s.crafts[stationId], i)
           q2 == IF i = 1 /\ q1 # <<>> THEN [q1 EXCEPT ![1].startAt = t] ELSE q1
       IN Done(pushLog([s EXCEPT !.crafts[stationId] = q2], "canceled craft"))

cancelCraftEntry(s, t, stationId, entryId) ==
  IF stationId \notin CraftStations \/ s.crafts[stationId] = <<>> THEN Fail(s, "empty")
  ELSE IF EntryIndex(s.crafts[stationId], entryId) = 0 THEN Fail(s, "not found")
  ELSE LET i == EntryIndex(s.crafts[stationId], entryId)
           entry == s.crafts[stationId][i]
           s1 == AddEach(s, RecipeInputs(entry.recipeId), "storage full: refund")
           q1 == RemoveAt(s1.crafts[stationId], i)
           q2 == IF i = 1 /\ q1 # <<>> THEN [q1 EXCEPT ![1].startAt = t] ELSE q1
       IN Done(pushLog([s1 EXCEPT !.crafts[stationId] = q2], "canceled craft"))

\* the output loop ending at the first output that storage refuses
RECURSIVE AddUntilRefused(_, _, _)
AddUntilRefused(s, items, warn) ==
  IF items = <<>> THEN s
  ELSE LET add == addItemToStorage(s, Head(items).id, Head(items).qty, "unset")
       IN IF add.ok THEN AddUntilRefused(add.s, Tail(items), warn) ELSE pushLog(add.s, warn)

resolveCraftCompletionBreak(s, recipeId) ==
  IF recipeId \notin RecipeIds THEN pushLog(s, "craft failed: missing recipe")
  ELSE pushLog(AddUntilRefused(s, LoadedOutputs(recipeId), "storage full: crafted"), "craft complete")

resolveCraftCompletion(s, recipeId) ==
  IF recipeId \notin RecipeIds THEN pushLog(s, "craft failed: missing recipe")
  ELSE pushLog(AddEach(s, LoadedOutputs(recipeId), "storage full: crafted"), "craft complete")

\* q.shift() and the stamp of the new head with the end of the entry before
PopCraft(s, stationId, endsAt) ==
  [s EXCEPT !.crafts[stationId] =
              IF Tail(@) # <<>> THEN [Tail(@) EXCEPT ![1].startAt = endsAt] ELSE Tail(@)]

\* the accumulator after cEntry was resolved into state s1
CraftResolved(a, s1, s2, cEntry) ==
  [a EXCEPT !.s = s2, !.snap = s2,
            !.crafted = Append(@, [id |-> cEntry.id, startAt |-> cEntry.startAt,
                                   before |-> StorageQty(a.s), after |-> StorageQty(s1)])]

AfterCraft(a, s1, stationId, cEntry) ==
  CraftResolved(a, s1, PopCraft(s1, stationId, cEntry.startAt + cEntry.durationMs), cEntry)

RECURSIVE CompleteCrafts(_, _, _)
CompleteCrafts(a, t, stationId) ==
  IF \/ a.s.crafts[stationId] = <<>>
     \/ a.s.crafts[stationId][1].startAt + a.s.crafts[stationId][1].durationMs > t
  THEN a
  ELSE CompleteCrafts(AfterCraft(a, resolveCraftCompletion(a.s, a.s.crafts[stationId][1].recipeId),
                                 stationId, a.s.crafts[stationId][1]),
                      t, stationId)

\* the tick of a station that stamps the head of the queue at every step
TickCraftsOfRestart(a, t, stationId) ==
  IF a.s.crafts[stationId] = <<>> THEN a
  ELSE CompleteCrafts([a EXCEPT !.s.crafts[stationId][1].startAt = t], t, stationId)

TickCraftsOf(a, t, stationId) ==
  IF a.s.crafts[stationId] = <<>> THEN a
  ELSE CompleteCrafts(IF a.s.crafts[stationId][1].startAt = NoTime
                      THEN [a EXCEPT !.s.crafts[stationId][1].startAt = t]
                      ELSE a,
                      t, stationId)

tickCraftQueues(a, t) == TickCraftsOf(TickCraftsOf(a, t, "workbench"), t, "stove")

(***************************************************************************)
(* The simulation step                                                     *)
(***************************************************************************)
StartAcc(s, snap) ==
  [s |-> s, snap |-> snap, threw |-> FALSE, k |-> 0, idleCycles |-> 0,
   resolved |-> <<>>, crafted |-> <<>>, ran |-> FALSE]

\* the post-tick auto-consume and the stamp of lastSimAt, which an exception
\* out of tickJobQueues skips
FinishStep(a, tNow, sick) ==
  IF a.threw THEN a
  ELSE [a EXCEPT !.s = [AutoConsumeFrom(a.s, tNow, 1, sick) EXCEPT !.lastSimAt = tNow]]

\* state.meta.lastSimAt || tNow
LastSim(s, tNow) == IF s.lastSimAt = 0 THEN tNow ELSE s.lastSimAt

\* the step without its guard on the elapsed time
simulateToNowAlways(s, snap, clk, rolls) ==
  FinishStep(tickJobQueues(tickCraftQueues([StartAcc(s, snap) EXCEPT
                                              !.ran = TRUE,
                                              !.s = applyContinuousDrains(
                                                      s, gameNow(clk, s),
                                                      gameNow(clk, s) - LastSim(s, gameNow(clk, s)))],
                                           gameNow(clk, s)),
                           gameNow(clk, s), rolls),
             gameNow(clk, s), rolls[1].dirtySick)

simulateToNow(s, snap, clk, rolls) ==
  IF gameNow(clk, s) - LastSim(s, gameNow(clk, s)) <= 0 THEN StartAcc(s, snap)
  ELSE FinishStep(tickJobQueues(tickCraftQueues([StartAcc(s, snap) EXCEPT
                                                   !.ran = TRUE,
                                                   !.s = applyContinuousDrains(
                                                           s, gameNow(clk, s),
                                                           gameNow(clk, s) - LastSim(s, gameNow(clk, s)))],
                                                gameNow(clk, s)),
                                gameNow(clk, s), rolls),
                  gameNow(clk, s), rolls[1].dirtySick)

(***************************************************************************)
(* Station upgrades, recruitment, state replacement                        *)
(***************************************************************************)
RECURSIVE HasAll(_, _)
HasAll(s, cost) ==
  IF cost = <<>> THEN TRUE
  ELSE hasItemInStorage(s, Head(cost)[1], Head(cost)[2]) /\ HasAll(s, Tail(cost))

RECURSIVE PayAll(_, _)
PayAll(s, cost) ==
  IF cost = <<>> THEN s
  ELSE PayAll(removeItemFromStorage(s, Head(cost)[1], Head(cost)[2]).s, Tail(cost))

\* upgradeStation without the recomputation of the derived stats
upgradeStationStale(s, stationId) ==
  IF stationId \notin StationIds THEN Fail(s, "unknown station")
  ELSE IF s.stations[stationId] + 1 > MaxLevel(stationId) THEN Fail(s, "maxed")
  ELSE IF ~HasAll(s, UpgradeCost(stationId, s.stations[stationId] + 1)) THEN Fail(s, "missing")
  ELSE Done(pushLog([PayAll(s, UpgradeCost(stationId, s.stations[stationId] + 1))
                       EXCEPT !.stations[stationId] = @ + 1],
                    "upgraded"))

upgradeStation(s, stationId) ==
  IF stationId \notin StationIds THEN Fail(s, "unknown station")
  ELSE IF s.stations[stationId] + 1 > MaxLevel(stationId) THEN Fail(s, "maxed")
  ELSE IF ~HasAll(s, UpgradeCost(stationId, s.stations[stationId] + 1)) THEN Fail(s, "missing")
  ELSE LET s1 == PayAll(s, UpgradeCost(stationId, s.stations[stationId] + 1))
           s2 == [s1 EXCEPT !.stations[stationId] = @ + 1]
       IN Done(pushLog(recomputeDerivedStats(s2), "upgraded"))

NpcTemplates == {"npc_scavenger", "npc_medic"}

recruitNpcFromTemplate(s, npcTemplateId) ==
  IF npcTemplateId \notin NpcTemplates THEN Fail(s, "unknown NPC")
  ELSE IF ~(Len(s.crew) < s.maxCrew) THEN Fail(s, "No bunks available")
  ELSE LET npc == [makeCharacter(FALSE, NpcStats(npcTemplateId), uidBase(s))
                     EXCEPT !.needs.hunger = 70 * NeedScale, !.needs.thirst = 70 * NeedScale,
                            !.needs.morale = 65 * NeedScale]
       IN Done(pushLog([s EXCEPT !.crew = Append(@, npc), !.jobs = Append(@, <<>>)],
                       "joined"))

\* ctx.replaceState: the structure checks find nothing missing in a state
\* this program wrote; then recomputeDerivedStats and simulateToNow
replaceState(newState, snap, clk, rolls) ==
  simulateToNow(recomputeDerivedStats(newState), snap, clk, rolls)

(***************************************************************************)
(* The explore flow of the Actions panel: find one food and one water      *)
(* stack in the pockets, reserve one unit of each, queue the job, and give *)
(* the units back when startJobForChar reports a failure.  An exception    *)
(* raised by startJobForChar leaves the handler before the rollback.       *)
(***************************************************************************)
FirstOfCategory(stacks, category) ==
  LET hits == SelectSeq(stacks, LAMBDA st : ItemCategory(st.itemId) = category /\ st.qty > 0)
  IN IF hits = <<>> THEN "none" ELSE hits[1].itemId

WithReserved(res, reserved) ==
  [ok |-> res.ok, threw |-> res.threw, reason |-> res.reason, s |-> res.s, reserved |-> reserved]

exploreFlow(s, t, c, pace, actionJobId) ==
  LET food == FirstOfCategory(s.crew[c].pockets.stacks, "food")
      water == FirstOfCategory(s.crew[c].pockets.stacks, "water")
      r1 == removeItemFromPockets(s, c, food, 1)
      r2 == removeItemFromPockets(r1.s, c, water, 1)
      consumed == (IF r1.ok THEN << [itemId |-> food, qty |-> 1] >> ELSE <<>>)
                  \o (IF r2.ok THEN << [itemId |-> water, qty |-> 1] >> ELSE <<>>)
      res == startJobForChar(r2.s, t, c, "explore", pace, 0,
                             [special |-> "explore", actionJobId |-> actionJobId, waterQty |-> 0,
                              rationsConsumed |-> consumed])
  IN IF food = "none" \/ water = "none" THEN WithReserved(Refused(s, "no rations"), FALSE)
     ELSE IF Len(consumed) < 2
          THEN WithReserved(Refused(RestoreRations(r2.s, c, consumed), "could not reserve"), FALSE)
     ELSE IF res.threw THEN WithReserved(res, TRUE)
     ELSE IF ~res.ok THEN WithReserved(Refused(RestoreRations(res.s, c, consumed), res.reason), TRUE)
     ELSE WithReserved(res, TRUE)

(***************************************************************************)
(* The draws of the random number generators.  A profile fixes the draws   *)
(* one job resolution consumes; dirtySick is the Math.random draw of       *)
(* consumeBestWater and consumeRationFood.                                 *)
(***************************************************************************)
Quiet ==
  [success |-> TRUE, extraInjury |-> FALSE, major |-> FALSE, minor |-> FALSE,
   sick |-> FALSE, wear |-> FALSE, down |-> FALSE, amt |-> "min", dirtySick |-> FALSE]

Lucky == [Quiet EXCEPT !.amt = "max", !.wear = TRUE]

Hurt == [Quiet EXCEPT !.major = TRUE, !.down = TRUE]

Scratch == [Quiet EXCEPT !.extraInjury = TRUE, !.minor = TRUE]

Ill == [Quiet EXCEPT !.success = FALSE, !.sick = TRUE, !.dirtySick = TRUE]

Profiles == {Quiet, Lucky, Hurt, Scratch, Ill}

\* the draws a step can consume: without a queued job only the Math.random
\* draw of the auto-consume is read
RollChoices(s) ==
  IF \A c \in 1..Len(s.jobs) : s.jobs[c] = <<>>
  THEN {<<Quiet>>, <<Ill>>}
  ELSE {<<p1, Quiet>> : p1 \in Profiles}

\* the instants at which the timer callback is taken to run: long enough
\* apart for a queued cordage and for jobs of 10 s and 20 s to end
TickGap == 60


Instant(i) ==
  1000 + (i - 1) * TickGap

ZeroQty == [i \in ItemIds |-> 0]

Hist(op) ==
  [op |-> op, ok |-> TRUE, threw |-> FALSE, reason |-> "", c |-> 0, id |-> 0,
   valid |-> FALSE, first |-> FALSE, dur |-> 0, reserved |-> FALSE, ran |-> FALSE, simThrew |-> FALSE,
   resolved |-> <<>>, crafted |-> <<>>, pre |-> ZeroQty, hash |-> <<>>, around |-> <<>>,
   roll |-> Quiet]

ClearLog(s) == [s EXCEPT !.log = <<>>]

CrewIds == 1..Len(state.crew)

\* the state and the snapshot a step left
Booted(a) ==
  /\ state = a.s
  /\ snapshot = a.snap

\* boot without a save: defaultNewGameState, safetySnapshot, replaceState
Init ==
  /\ clock = Instant(1)
  /\ Booted(replaceState(defaultNewGameState(Instant(1)), defaultNewGameState(Instant(1)),
                         Instant(1), <<Quiet>>))
  /\ hist = Hist("boot")
  /\ stock = [spawn |-> 0, imports |-> 0, outputs |-> <<>>]

\* an operation that returns {ok, reason} and writes the snapshot on success
Returns(op, res, c, id) ==
  /\ state' = res.s
  /\ snapshot' = IF res.ok THEN res.s ELSE snapshot
  /\ hist' = [Hist(op) EXCEPT !.ok = res.ok, !.reason = res.reason, !.c = c, !.id = id]
  /\ UNCHANGED <<clock, stock>>

\* the handler ends with the step result a; h holds what the handler did
Stepped(h, a) ==
  /\ state' = a.s
  /\ snapshot' = a.snap
  /\ hist' = [h EXCEPT !.ran = a.ran, !.simThrew = a.threw,
                       !.resolved = a.resolved, !.crafted = a.crafted]

\* ctx.simulateAndRender after a handler that left state s and snapshot snap
SimulateAndRender(op, ok, reason, s, snap, rolls) ==
  /\ Stepped([Hist(op) EXCEPT !.ok = ok, !.reason = reason], simulateToNow(s, snap, clock, rolls))
  /\ UNCHANGED clock

addSimTime(s, ms) == [s EXCEPT !.timeOffset = @ + ms]

resetSimTimeToReal(s) == [s EXCEPT !.timeOffset = 0]

\* Admin overlay, Time Controls: +10m and +1h, then ctx.simulateAndRender
AddSimTime ==
  \E ms \in {600, Hour}, rolls \in RollChoices(state) :
    /\ state.timeOffset + ms <= MaxOffset
    /\ SimulateAndRender("addSimTime", TRUE, "", addSimTime(ClearLog(state), ms), snapshot, rolls)
    /\ UNCHANGED stock

\* Admin overlay, Time Controls: Reset to Real, then ctx.simulateAndRender
ResetSimTime ==
  \E rolls \in RollChoices(state) :
    /\ SimulateAndRender("resetSimTime", TRUE, "", resetSimTimeToReal(ClearLog(state)), snapshot, rolls)
    /\ UNCHANGED stock

\* the Set TileId handler up to its safetySnapshot
setTile(s, t, val) ==
  pushLog(getOrCreateTile([s EXCEPT !.lastTileId = val], t, val), "admin: moved to tile")

\* Admin overlay, Tile Tools: Set TileId
AdminSetTile ==
  \E val \in TileIds, rolls \in RollChoices(state) :
    /\ SimulateAndRender("setTile", TRUE, "",
                         setTile(ClearLog(state), gameNow(clock, state), val),
                         setTile(ClearLog(state), gameNow(clock, state), val), rolls)
    /\ UNCHANGED stock

\* panelActions up to the list of jobs: without a tile the default tile is
\* entered (and a snapshot written), then the tile is fetched
panelActions(s, t) ==
  IF s.lastTileId = "none"
  THEN getOrCreateTile(pushLog(getOrCreateTile([s EXCEPT !.lastTileId = DefaultTile], t, DefaultTile),
                               "using default tile"),
                       t, DefaultTile)
  ELSE getOrCreateTile(s, t, s.lastTileId)

\* the Actions button
OpenActions ==
  /\ state' = panelActions(ClearLog(state), gameNow(clock, state))
  /\ snapshot' = IF state.lastTileId = "none" THEN panelActions(ClearLog(state), gameNow(clock, state)) ELSE snapshot
  /\ hist' = Hist("panelActions")
  /\ UNCHANGED <<clock, stock>>

\* the Recruit button of the tutorial encounter, after the check of the
\* bunks: the optional offer, the recruitment, and on success the encounter
\* is cleared and the panel drawn again
recruitTutorial(s, t, tileId, offer) ==
  LET s1 == IF offer THEN removeItemFromStorage(s, "ration_basic", 1).s ELSE s
      res == recruitNpcFromTemplate(s1, "npc_scavenger")
  IN IF res.ok
     THEN Done(pushLog([res.s EXCEPT !.world[tileId].encounter = "none"], "recruitment tutorial complete"))
     ELSE res

\* Actions panel, Recruit on the encounter card of the current tile
Recruit ==
  \E offer \in BOOLEAN :
    /\ state.lastTileId # "none"
    /\ state.world[state.lastTileId].tutorialOverlay
    /\ state.world[state.lastTileId].encounter = "recruitNpc"
    /\ offer => hasItemInStorage(state, "ration_basic", 1)
    /\ UNCHANGED <<clock, stock>>
    /\ IF ~(Len(state.crew) < state.maxCrew)
       THEN /\ ~offer
            /\ hist' = [Hist("recruitTutorial") EXCEPT !.ok = FALSE, !.reason = "No bunks available"]
            /\ UNCHANGED <<state, snapshot>>
       ELSE LET res == recruitTutorial(ClearLog(state), gameNow(clock, state), state.lastTileId, offer)
            IN /\ state' = IF res.ok THEN panelActions(res.s, gameNow(clock, state)) ELSE res.s
               /\ snapshot' = IF res.ok THEN res.s ELSE snapshot
               /\ hist' = [Hist("recruitTutorial") EXCEPT !.ok = res.ok, !.reason = res.reason]

\* the setInterval callback, or the first step after the page was away
Tick ==
  \E i \in 1..MaxClock :
    /\ Instant(i) > clock
    /\ \E rolls \in RollChoices(state) :
         /\ clock' = Instant(i)
         /\ Stepped(Hist("tick"), simulateToNow(ClearLog(state), snapshot, Instant(i), rolls))
         /\ UNCHANGED stock

\* the setInterval callback at the end of a stretch in which the timers
\* did not run (the device slept): one step over a gap of hours
SleepGap == 9000

Wake ==
  /\ clock <= Instant(MaxClock)
  /\ \E rolls \in RollChoices(state) :
       /\ clock' = clock + SleepGap
       /\ Stepped(Hist("wake"), simulateToNow(ClearLog(state), snapshot, clock + SleepGap, rolls))
       /\ UNCHANGED stock

Now == gameNow(clock, state)

\* Admin overlay, Spawn Items: the admin works down a list of item and
\* quantity, skipping entries at will
SpawnInputs ==
  << <<"fiber", 55>>, <<"water_clean", 4>>, <<"ration_basic", 4>> >>

AdminSpawn ==
  \E k \in 1..Min(MaxSpawn, Len(SpawnInputs)), rolls \in RollChoices(state) :
    /\ k > stock.spawn
    /\ stock' = [stock EXCEPT !.spawn = k]
    /\ LET add == addItemToStorage(ClearLog(state), SpawnInputs[k][1], SpawnInputs[k][2], "true")
           s1 == pushLog(add.s, "ADMIN: added")
       IN IF add.ok THEN SimulateAndRender("spawn", TRUE, "", s1, s1, rolls)
          ELSE /\ state' = add.s
               /\ hist' = [Hist("spawn") EXCEPT !.ok = FALSE, !.reason = add.reason]
               /\ UNCHANGED <<clock, snapshot>>

\* Admin overlay, Spawn Items, for water fetched from a stream
SpawnDirtyWater ==
  \E rolls \in RollChoices(state) :
    /\ ~hasItemInStorage(state, "water_dirty", 1)
    /\ SimulateAndRender("spawn", TRUE, "",
                         pushLog(addItemToStorage(ClearLog(state), "water_dirty", 2, "true").s, "ADMIN: added"),
                         pushLog(addItemToStorage(ClearLog(state), "water_dirty", 2, "true").s, "ADMIN: added"),
                         rolls)
    /\ UNCHANGED stock

\* Admin overlay, Spawn Items, for the materials of a station upgrade
SpawnParts ==
  \E itemId \in {"scrap_metal", "wiring"}, qty \in {3, 10}, rolls \in RollChoices(state) :
    /\ QtyOf(state.stacks, itemId) + qty <= MaxParts
    /\ UNCHANGED stock
    /\ IF addItemToStorage(ClearLog(state), itemId, qty, "true").ok
       THEN SimulateAndRender("spawn", TRUE, "",
                              pushLog(addItemToStorage(ClearLog(state), itemId, qty, "true").s, "ADMIN: added"),
                              pushLog(addItemToStorage(ClearLog(state), itemId, qty, "true").s, "ADMIN: added"),
                              rolls)
       ELSE /\ state' = addItemToStorage(ClearLog(state), itemId, qty, "true").s
            /\ hist' = [Hist("spawn") EXCEPT !.ok = FALSE,
                                             !.reason = addItemToStorage(ClearLog(state), itemId, qty, "true").reason]
            /\ UNCHANGED <<clock, snapshot>>

\* Admin overlay, Spawn Items, for a revive serum when none is aboard
SpawnSerum ==
  \E rolls \in RollChoices(state) :
    /\ ~hasItemInStorage(state, "revive_serum", 1)
    /\ SimulateAndRender("spawn", TRUE, "",
                         pushLog(addItemToStorage(ClearLog(state), "revive_serum", 1, "true").s, "ADMIN: added"),
                         pushLog(addItemToStorage(ClearLog(state), "revive_serum", 1, "true").s, "ADMIN: added"),
                         rolls)
    /\ UNCHANGED stock

SixHours == 6 * Hour

\* the first step after the page was away for ten minutes, an hour or six
\* hours, within six hours of the start of the game
Away ==
  \E gap \in {600, Hour, SixHours}, rolls \in RollChoices(state) :
    /\ clock + gap <= Instant(1) + SixHours
    /\ clock' = clock + gap
    /\ Stepped(Hist("away"), simulateToNow(ClearLog(state), snapshot, clock + gap, rolls))
    /\ UNCHANGED stock

\* the first step after a night in which the timers did not run
Overnight ==
  \E rolls \in RollChoices(state) :
    /\ clock <= Instant(MaxClock)
    /\ clock' = clock + SixHours
    /\ Stepped(Hist("overnight"), simulateToNow(ClearLog(state), snapshot, clock + SixHours, rolls))
    /\ UNCHANGED stock

\* Admin overlay, Spawn Medic NPC
SpawnMedic ==
  \E rolls \in RollChoices(state) :
    /\ UNCHANGED stock
    /\ LET res == recruitNpcFromTemplate(ClearLog(state), "npc_medic")
       IN SimulateAndRender("recruit", res.ok, res.reason, res.s,
                            IF res.ok THEN res.s ELSE snapshot, rolls)

\* the transfers tried: the player's pockets, two units at a time, and the
\* player's knife
MoveChars == {1}

MoveItems == {"water_clean", "ration_basic"}

MoveQtys == {2}

MoveUids == {1}

\* Storage panel, Feed and Drink on a stack shown in the list
Feed ==
  \E c \in CrewIds, itemId \in {"ration_basic", "meat_raw"}, sickFood \in BOOLEAN :
    /\ QtyOf(state.stacks, itemId) > 0
    /\ sickFood => FoodRaw(itemId)
    /\ Returns("feed", consumeFoodFromStorage(ClearLog(state), Now, c, itemId, sickFood), c, 0)

Drink ==
  \E c \in CrewIds, itemId \in {"water_clean", "water_dirty"}, sick \in BOOLEAN :
    /\ QtyOf(state.stacks, itemId) > 0
    /\ sick => WaterDirty(itemId)
    /\ Returns("drink", consumeWaterFromStorage(ClearLog(state), Now, c, itemId, sick), c, 0)

\* Crew panel, idle behaviour select
SetIdle ==
  \E c \in MoveChars, v \in {"rest", "forage"} :
    /\ state.crew[c].idleBehavior # v
    /\ Returns("setIdle", Done([ClearLog(state) EXCEPT !.crew[c].idleBehavior = v]), c, 0)

\* Storage panel, Transfer on a stack: the amount is clamped to the stack
TransferStackRvToChar ==
  \E c \in MoveChars, itemId \in MoveItems, qty \in MoveQtys :
    /\ QtyOf(state.stacks, itemId) >= qty
    /\ Returns("transferStackRvToChar", transferStackRvToChar(ClearLog(state), c, itemId, qty), c, 0)

\* Equipment panel, Store on a pocket stack
TransferStackCharToRv ==
  \E c \in MoveChars, itemId \in MoveItems, qty \in MoveQtys :
    /\ QtyOf(state.crew[c].pockets.stacks, itemId) >= qty
    /\ Returns("transferStackCharToRv", transferStackCharToRv(ClearLog(state), c, itemId, qty), c, 0)

\* Storage panel, Transfer on an instance
TransferInstanceRvToChar ==
  \E c \in MoveChars, uid \in MoveUids :
    /\ UidIndex(state.instances, uid) # 0
    /\ Returns("transferInstanceRvToChar", transferInstanceRvToChar(ClearLog(state), c, uid), c, uid)

\* Equipment panel, Store on an instance
TransferInstanceCharToRv ==
  \E c \in MoveChars, uid \in MoveUids :
    /\ UidIndex(state.crew[c].pockets.instances, uid) # 0
    /\ Returns("transferInstanceCharToRv", transferInstanceCharToRv(ClearLog(state), c, uid), c, uid)

\* dropFromRvStorage: the Storage panel calls it on a stack with an amount
\* clamped to the stack; the operation also takes the id of an instance item
DropFromRvStorage ==
  \E itemId \in {"water_clean", "knife_pocket"}, qty \in MoveQtys :
    /\ StorageQty(state)[itemId] >= (IF IsInstanceItem(itemId) THEN 1 ELSE qty)
    /\ Returns("dropFromRvStorage", dropFromRvStorage(ClearLog(state), itemId, qty), 0, 0)

\* Storage panel, Drop on an instance
DropInstanceFromRvStorage ==
  \E uid \in MoveUids :
    /\ UidIndex(state.instances, uid) # 0
    /\ Returns("dropInstanceFromRvStorage", dropInstanceFromRvStorage(ClearLog(state), uid), 0, uid)

StartCraft ==
  \E recipeId \in {"cordage"} :
    /\ Len(state.crafts[RecipeStation(recipeId)]) < MaxQueue
    /\ LET res == startCraft(ClearLog(state), Now, recipeId)
       IN /\ state' = res.s
          /\ snapshot' = IF res.ok THEN res.s ELSE snapshot
          /\ hist' = [Hist("startCraft") EXCEPT !.ok = res.ok, !.reason = res.reason,
                                                !.id = IF res.ok THEN freshUid(state) ELSE 0,
                                                !.pre = StorageQty(state)]
          /\ UNCHANGED <<clock, stock>>

\* the same button for the bandage recipe
StartBandage ==
  \E recipeId \in {"bandage"} :
    /\ Len(state.crafts[RecipeStation(recipeId)]) < MaxQueue
    /\ LET res == startCraft(ClearLog(state), Now, recipeId)
       IN /\ state' = res.s
          /\ snapshot' = IF res.ok THEN res.s ELSE snapshot
          /\ hist' = [Hist("startCraft") EXCEPT !.ok = res.ok, !.reason = res.reason,
                                                !.id = IF res.ok THEN freshUid(state) ELSE 0,
                                                !.pre = StorageQty(state)]
          /\ UNCHANGED <<clock, stock>>

\* the Craft button pressed a minute and a half after the latest interval
\* callback ran (the timers of a page in the background are held back)
LateGap == 90

StartCraftLate ==
  \E recipeId \in {"cordage"} :
    /\ clock <= Instant(MaxClock)
    /\ Len(state.crafts[RecipeStation(recipeId)]) < MaxQueue
    /\ clock' = clock + LateGap
    /\ LET res == startCraft(ClearLog(state), gameNow(clock + LateGap, state), recipeId)
       IN /\ state' = res.s
          /\ snapshot' = IF res.ok THEN res.s ELSE snapshot
          /\ hist' = [Hist("startCraft") EXCEPT !.ok = res.ok, !.reason = res.reason,
                                                !.id = IF res.ok THEN freshUid(state) ELSE 0,
                                                !.pre = StorageQty(state)]
          /\ UNCHANGED stock

CancelCraft ==
  \E stationId \in CraftStations :
    \E i \in 1..Len(state.crafts[stationId]) :
      Returns("cancelCraft",
              cancelCraftEntry(ClearLog(state), Now, stationId, state.crafts[stationId][i].id),
              0, state.crafts[stationId][i].id)

UpgradeStation ==
  \E stationId \in {"storage"} :
    Returns("upgradeStation", upgradeStation(ClearLog(state), stationId), 0, 0)

\* what startJobForChar checks before it builds the entry
ValidStart(s, c, jobId) ==
  /\ c \in 1..Len(s.crew)
  /\ ~s.crew[c].conditions.downed
  /\ jobId \in JobIds
  /\ (JobRequiresItem(jobId) = "none" \/ hasItemInStorage(s, JobRequiresItem(jobId), 1))

\* Actions panel, Queue Job (the normal branch); optDuration stands for a
\* caller that passes opts.durationMs
StartJob ==
  \E c \in CrewIds, inp \in {<<"forage", 10>>, <<"forage", 20>>, <<"trap", 0>>} :
    LET jobId == inp[1]
        optDuration == inp[2]
        res == startJobForChar(ClearLog(state), Now, c, jobId, "normal", optDuration, NoMeta)
    IN /\ state' = res.s
       /\ snapshot' = IF res.ok THEN res.s ELSE snapshot
       /\ hist' = [Hist("startJob") EXCEPT !.ok = res.ok, !.threw = res.threw, !.reason = res.reason,
                                           !.c = c, !.valid = ValidStart(state, c, jobId),
                                           !.first = (state.jobs[c] = <<>>), !.dur = optDuration]
       /\ UNCHANGED <<clock, stock>>

\* Actions panel, Queue Job on the explore action
Explored(res, c) ==
  /\ state' = res.s
  /\ snapshot' = IF res.ok THEN res.s ELSE snapshot
  /\ hist' = [Hist("explore") EXCEPT !.ok = res.ok, !.threw = res.threw, !.reason = res.reason,
                                     !.c = c, !.valid = ValidStart(state, c, "explore"),
                                     !.reserved = res.reserved]

ExploreFlow ==
  \E c \in CrewIds :
    /\ Explored(exploreFlow(ClearLog(state), Now, c, "normal", "explore"), c)
    /\ UNCHANGED <<clock, stock>>

\* Crew panel, Cancel on a queued task
CancelJob ==
  \E c \in CrewIds :
    \E i \in 1..Len(state.jobs[c]) :
      Returns("cancelJob", cancelQueuedJob(ClearLog(state), Now, c, state.jobs[c][i].id),
              c, state.jobs[c][i].id)

\* Crew panel, Clear Queue (shown while the queue has entries)
ClearJobQueue ==
  \E c \in CrewIds :
    /\ state.jobs[c] # <<>>
    /\ Returns("clearJobQueue", clearJobQueue(ClearLog(state), c), c, 0)

(***************************************************************************)
(* Admin overlay, Import JSON: ctx.replaceState of a save.  No handler of  *)
(* this build appends a job entry, so queues with entries come from saves  *)
(* written elsewhere; the saves drawn here are the current state with the  *)
(* queue of one crew member filled as startJobForChar builds entries: the  *)
(* head started at the import instant, the others waiting.                 *)
(***************************************************************************)
SavedEntry(id, jobId, t, startAt, dur, meta) ==
  [id |-> id, jobId |-> jobId, pace |-> "normal", createdAt |-> t, startAt |-> startAt,
   durationMs |-> dur, toolOk |-> TRUE, meta |-> meta]

ExploreMeta ==
  [special |-> "explore", actionJobId |-> "explore", waterQty |-> 0,
   rationsConsumed |-> << [itemId |-> "ration_basic", qty |-> 1], [itemId |-> "water_clean", qty |-> 1] >>]

\* Admin overlay, Import JSON: a save like the running game in which crew member
\* c has one short forage entry queued at the pace chosen
ImportPaced ==
  \E c \in CrewIds, pace \in Paces, rolls \in RollChoices(state) :
    /\ stock.imports < MaxImport
    /\ stock' = [stock EXCEPT !.imports = @ + 1]
    /\ \A d \in CrewIds : state.jobs[d] = <<>>
    /\ Stepped([Hist("import") EXCEPT !.c = c],
               replaceState([ClearLog(state) EXCEPT
                               !.jobs[c] = << [SavedEntry(uidBase(state) + 1, "forage", Now, Now, 10, NoMeta)
                                                 EXCEPT !.pace = pace] >>],
                            snapshot, clock, rolls))
    /\ UNCHANGED clock

SavedQueues(s, t) ==
  { << SavedEntry(uidBase(s) + 1, "forage", t, t, 10, NoMeta),
       SavedEntry(uidBase(s) + 2, "forage", t, NoTime, 20, NoMeta) >>,
    << SavedEntry(uidBase(s) + 1, "explore", t, t, JobBaseSec("explore"), ExploreMeta) >>,
    << SavedEntry(uidBase(s) + 1, "forage", t, t, 10, NoMeta),
       SavedEntry(uidBase(s) + 2, "explore", t, NoTime, 20, ExploreMeta) >>,
    << SavedEntry(uidBase(s) + 1, "explore", t, t, 10, ExploreMeta),
       SavedEntry(uidBase(s) + 2, "forage", t, NoTime, 20, NoMeta) >> }

\* the queue the save holds for crew member d: q for c and, in the saves
\* where the others are busy too, one short forage for each of the others
SavedJobs(s, t, c, q, others) ==
  [d \in 1..Len(s.crew) |->
     IF d = c THEN q
     ELSE IF others THEN << SavedEntry(uidBase(s) + 2 + d, "forage", t, t, 10, NoMeta) >>
     ELSE <<>>]

ImportSave ==
  \E c \in CrewIds, rolls \in RollChoices(state), others \in BOOLEAN :
    \E q \in SavedQueues(state, Now) :
      /\ stock.imports < MaxImport
      /\ stock' = [stock EXCEPT !.imports = @ + 1]
      /\ \A d \in CrewIds : state.jobs[d] = <<>>
      /\ Len(q) <= MaxQueue
      /\ others => Len(state.crew) > 1
      /\ Stepped([Hist("import") EXCEPT !.c = c],
                 replaceState([ClearLog(state) EXCEPT !.jobs = SavedJobs(state, Now, c, q, others)],
                              snapshot, clock, rolls))
      /\ UNCHANGED clock

(***************************************************************************)
(* maybeAutoConsume on its own: the game as loaded from a save in which    *)
(* the needs of the player stand at, just above and around the threshold,  *)
(* with or without water and rations aboard.                               *)
(***************************************************************************)
NeedLevels ==
  {autoConsumeThreshold - NeedScale, autoConsumeThreshold,
   autoConsumeThreshold + 1, autoConsumeThreshold + NeedScale}

Stocked(s, itemId, qty, ration) ==
  IF qty = 0 THEN s ELSE addItemToStorage(s, itemId, qty, ration).s

InitThreshold ==
  /\ clock = Instant(1)
  /\ \E th \in NeedLevels, hu \in {autoConsumeThreshold, autoConsumeThreshold + 1},
        clean \in 0..2, dirty \in 0..1, food \in 0..1, down \in BOOLEAN :
       state = [Stocked(Stocked(Stocked(defaultNewGameState(Instant(1)), "water_clean", clean, "unset"),
                                "water_dirty", dirty, "unset"),
                        "ration_basic", food, "true")
                  EXCEPT !.crew[1].needs.thirst = th, !.crew[1].needs.hunger = hu,
                         !.crew[1].conditions.downed = down, !.log = <<>>]
  /\ snapshot = state
  /\ hist = Hist("boot")
  /\ stock = [spawn |-> 0, imports |-> 0, outputs |-> <<>>]

\* the call of maybeAutoConsume for one crew member (lines 1819 and 2323)
AutoConsume ==
  \E c \in CrewIds, sick \in BOOLEAN :
    /\ state' = maybeAutoConsume(ClearLog(state), Now, c, sick)
    /\ hist' = [Hist("autoConsume") EXCEPT !.c = c]
    /\ UNCHANGED <<clock, snapshot, stock>>

SpecThreshold == InitThreshold /\ [][AutoConsume]_vars

(***************************************************************************)
(* The program: every handler modelled                                     *)
(***************************************************************************)
Next ==
  \/ Tick
  \/ Wake
  \/ Away
  \/ SpawnDirtyWater
  \/ AdminSetTile
  \/ AddSimTime
  \/ ResetSimTime
  \/ AdminSpawn
  \/ SpawnMedic
  \/ SetIdle
  \/ TransferStackRvToChar
  \/ TransferStackCharToRv
  \/ TransferInstanceRvToChar
  \/ TransferInstanceCharToRv
  \/ DropFromRvStorage
  \/ DropInstanceFromRvStorage
  \/ StartCraft
  \/ CancelCraft
  \/ UpgradeStation
  \/ StartJob
  \/ ExploreFlow
  \/ CancelJob
  \/ ClearJobQueue
  \/ ImportSave

Spec == Init /\ [][Next]_vars

(***************************************************************************)
(* The program restricted to the handlers of one panel or one subsystem    *)
(***************************************************************************)
(***************************************************************************)
(* geohashNeighbors on its own: the player stands on any tile of precision *)
(* 2..MaxPrecision, the neighbours of the tile are looked up, and the      *)
(* player walks on to the tile next to it in one of the four directions.   *)
(***************************************************************************)
Hashes == UNION {[1..p -> Base32] : p \in 2..MaxPrecision}

InitNeighbors ==
  /\ clock = Instant(1)
  /\ Booted(replaceState(defaultNewGameState(Instant(1)), defaultNewGameState(Instant(1)),
                         Instant(1), <<Quiet>>))
  /\ stock = [spawn |-> 0, imports |-> 0, outputs |-> <<>>]
  /\ \E hash \in Hashes : hist = [Hist("geohashEncode") EXCEPT !.hash = hash]

LookAround ==
  /\ hist.op = "geohashEncode"
  /\ hist' = [hist EXCEPT !.op = "geohashNeighbors", !.around = neighbors(hist.hash)]
  /\ UNCHANGED <<clock, state, snapshot, stock>>

WalkOn ==
  \E dir \in Dirs :
    /\ hist' = [Hist("geohashEncode") EXCEPT !.hash = geohashAdjacent(hist.hash, dir)]
    /\ UNCHANGED <<clock, state, snapshot, stock>>

NextNeighbors ==
  \/ LookAround
  \/ WalkOn

SpecNeighbors == InitNeighbors /\ [][NextNeighbors]_vars

(***************************************************************************)
(* The risk rolls of a resolution on their own: the player has a forage, a *)
(* scavenge or an explore entry at the head of the queue and is, or is     *)
(* not, injured and sick already; the step that resolves the entry draws   *)
(* the success, extra injury, major injury, minor injury and sickness      *)
(* rolls in every combination.                                             *)
(***************************************************************************)
RiskRolls ==
  {[Quiet EXCEPT !.major = a, !.minor = b, !.sick = d, !.extraInjury = e, !.success = f] :
     a, b, d, e, f \in BOOLEAN}

RiskState(sev, sick, jobId, pace) ==
  [defaultNewGameState(Instant(1)) EXCEPT
     !.crew[1].conditions.injury =
        IF sev = "none" THEN NoInjury ELSE [severity |-> sev, endsAt |-> Instant(1) + 2 * Hour],
     !.crew[1].conditions.sickness =
        IF sick THEN [active |-> TRUE, endsAt |-> Instant(1) + 3 * Hour] ELSE NoSickness,
     !.jobs[1] = << [SavedEntry(uidBase(defaultNewGameState(Instant(1))) + 1, jobId,
                                Instant(1), Instant(1), 10,
                                IF jobId = "explore" THEN ExploreMeta ELSE NoMeta)
                       EXCEPT !.pace = pace] >>]

InitRisk ==
  /\ clock = Instant(1)
  /\ \E sev \in {"none", "minor", "major"}, sick \in BOOLEAN,
        jobId \in {"forage", "scavenge", "explore"}, pace \in Paces :
       Booted(replaceState(RiskState(sev, sick, jobId, pace), RiskState(sev, sick, jobId, pace),
                           Instant(1), <<Quiet>>))
  /\ hist = Hist("boot")
  /\ stock = [spawn |-> 0, imports |-> 0, outputs |-> <<>>]

\* the setInterval callback, with the draws of the resolution kept in hist
TickRisk ==
  \E i \in 1..MaxClock, roll \in RiskRolls :
    /\ Instant(i) > clock
    /\ clock' = Instant(i)
    /\ Stepped([Hist("tick") EXCEPT !.roll = roll],
               simulateToNow(ClearLog(state), snapshot, Instant(i), <<roll>>))
    /\ UNCHANGED stock

SpecRisk == InitRisk /\ [][TickRisk]_vars

(***************************************************************************)
(* A character in danger: the player has two forage entries, the second   *)
(* of which ends after the first tick, is or is not starving, injured and  *)
(* sick, carries a moodlet, and a revive serum is or is not in storage.    *)
(* The timed effects end half a minute or two hours after the start.       *)
(***************************************************************************)
DangerRolls ==
  {Quiet, Hurt, [Quiet EXCEPT !.down = TRUE], [Quiet EXCEPT !.major = TRUE]}

DangerState(starving, sev, sick, serum, ends) ==
  LET s0 == defaultNewGameState(Instant(1))
      s1 == IF serum THEN addItemToStorage(s0, "revive_serum", 1, "true").s ELSE s0
      id == uidBase(s0)
  IN [s1 EXCEPT
        !.crew[1].needs.hunger = IF starving THEN 0 ELSE @,
        !.crew[1].needs.thirst = IF starving THEN 0 ELSE @,
        !.crew[1].moodlets = {[id |-> "m_brokentool", endsAt |-> ends]},
        !.crew[1].conditions.injury =
           IF sev = "none" THEN NoInjury ELSE [severity |-> sev, endsAt |-> ends],
        !.crew[1].conditions.sickness =
           IF sick THEN [active |-> TRUE, endsAt |-> ends] ELSE NoSickness,
        !.jobs[1] = << SavedEntry(id + 1, "forage", Instant(1), Instant(1), 10, NoMeta),
                       SavedEntry(id + 2, "forage", Instant(1), NoTime, 100, NoMeta) >>]

InitDanger ==
  /\ clock = Instant(1)
  /\ \E starving, sick, serum \in BOOLEAN, sev \in {"none", "major"},
        ends \in {Instant(1) + 30, Instant(1) + 2 * Hour} :
       Booted(replaceState(DangerState(starving, sev, sick, serum, ends),
                           DangerState(starving, sev, sick, serum, ends), Instant(1), <<Quiet>>))
  /\ hist = Hist("boot")
  /\ stock = [spawn |-> 0, imports |-> 0, outputs |-> <<>>]

\* the setInterval callback, with the first draws of the step kept in hist
TickDanger ==
  \E i \in 1..MaxClock, p1, p2 \in DangerRolls :
    /\ Instant(i) > clock
    /\ clock' = Instant(i)
    /\ Stepped([Hist("tick") EXCEPT !.roll = p1],
               simulateToNow(ClearLog(state), snapshot, Instant(i), <<p1, p2>>))
    /\ UNCHANGED stock

NextDanger ==
  \/ TickDanger
  \/ Overnight
  \/ SpawnSerum

SpecDanger == InitDanger /\ [][NextDanger]_vars

(***************************************************************************)
(* Crafting with a recipes file: the bandage recipe of the file has two    *)
(* outputs, and storage is filled by the admin while bandages are made.    *)
(***************************************************************************)
OutputLists ==
  { << [id |-> "bandage", qty |-> 1], [id |-> "fiber", qty |-> 2] >>,
    << [id |-> "fiber", qty |-> 2], [id |-> "bandage", qty |-> 1] >>,
    << [id |-> "fiber", qty |-> 2], [id |-> "cordage_item", qty |-> 2] >> }

InitLoaded ==
  /\ clock = Instant(1)
  /\ stock \in {[spawn |-> 0, imports |-> 0, outputs |-> outs] : outs \in OutputLists}
  /\ Booted(replaceState(defaultNewGameState(Instant(1)), defaultNewGameState(Instant(1)),
                         Instant(1), <<Quiet>>))
  /\ hist = Hist("boot")

NextLoaded ==
  \/ Wake
  \/ AdminSpawn
  \/ StartBandage
  \/ DropFromRvStorage

SpecLoaded == InitLoaded /\ [][NextLoaded]_vars

\* the setInterval callback, with the draws of the first resolution kept in
\* hist
TickRolled ==
  \E i \in 1..MaxClock, roll \in {Quiet, Lucky, Hurt} :
    /\ Instant(i) > clock
    /\ clock' = Instant(i)
    /\ Stepped([Hist("tick") EXCEPT !.roll = roll],
               simulateToNow(ClearLog(state), snapshot, Instant(i), <<roll, Quiet>>))
    /\ UNCHANGED stock

\* jobs that end while the admin fills shared storage
NextYields ==
  \/ TickRolled
  \/ AdminSpawn
  \/ DropFromRvStorage

\* a save in which the player has a forage entry that has ended and the
\* fiber in shared storage leaves `free` units of the capacity
YieldState(free) ==
  LET s0 == defaultNewGameState(Instant(1))
      s1 == addItemToStorage(s0, "fiber", s0.capacity - countStorageUsed(s0) - free, "unset").s
  IN [s1 EXCEPT !.jobs[1] = << SavedEntry(uidBase(s0) + 1, "forage", Instant(1), Instant(1), 10,
                                          NoMeta) >>]

InitYields ==
  /\ clock = Instant(1)
  /\ \E free \in 0..MaxFree :
       Booted(replaceState(YieldState(free), YieldState(free), Instant(1), <<Quiet>>))
  /\ hist = Hist("boot")
  /\ stock = [spawn |-> 0, imports |-> 0, outputs |-> <<>>]

SpecYields == InitYields /\ [][NextYields]_vars

\* job queues and craft queues side by side
NextQueues ==
  \/ Tick
  \/ ImportSave
  \/ CancelJob
  \/ AdminSpawn
  \/ StartCraft
  \/ CancelCraft

SpecQueues == Init /\ [][NextQueues]_vars

\* crafts queued between two runs of the interval callback
NextLate ==
  \/ Tick
  \/ AdminSpawn
  \/ StartCraft
  \/ StartCraftLate
  \/ CancelCraft

SpecLate == Init /\ [][NextLate]_vars

\* steps that end in the exception of the idle start, and steps that end well
NextDrain ==
  \/ Tick
  \/ Wake
  \/ SetIdle
  \/ AddSimTime

SpecDrain == Init /\ [][NextDrain]_vars

\* doubtful water drunk by hand, and time passing
NextSick ==
  \/ Tick
  \/ Wake
  \/ SpawnDirtyWater
  \/ Drink
  \/ AddSimTime

SpecSick == Init /\ [][NextSick]_vars

(***************************************************************************)
(* Progress of the craft queues.  The interval callback runs again and     *)
(* again (setInterval), which is the fairness of Tock; crafts are started  *)
(* during the first MaxClock instants and the clock runs on until          *)
(* Horizon, late enough for a full queue of the longest recipe.            *)
(***************************************************************************)
Horizon == Instant(MaxClock) + (MaxQueue + 1) * 120

\* the clock of the page at the next run of the interval callback
Advance ==
  /\ clock < Horizon
  /\ clock' = clock + TickGap

Tock ==
  /\ Advance
  /\ \E rolls \in RollChoices(state) :
       /\ Stepped(Hist("tick"), simulateToNow(ClearLog(state), snapshot, clock + TickGap, rolls))
       /\ UNCHANGED stock

StartCraftEarly ==
  /\ clock <= Instant(MaxClock)
  /\ StartCraft

NextProgress ==
  \/ Tock
  \/ AdminSpawn
  \/ StartCraftEarly
  \/ CancelCraft

\* Tock is the one step that moves the clock and it is enabled whenever
\* Advance is, so weak fairness of Advance on the clock is weak fairness of
\* Tock: the callback fires again as long as the horizon is not reached
SpecProgress == Init /\ [][NextProgress]_vars /\ WF_clock(Advance)

\* the operations that return {ok, reason}, without the timer
NextStore ==
  \/ AdminSpawn
  \/ SpawnMedic
  \/ TransferStackRvToChar
  \/ TransferStackCharToRv
  \/ TransferInstanceRvToChar
  \/ TransferInstanceCharToRv
  \/ DropFromRvStorage
  \/ DropInstanceFromRvStorage
  \/ StartCraft
  \/ UpgradeStation
  \/ StartJob

SpecStore == Init /\ [][NextStore]_vars

\* the handlers that fill shared storage and pockets
NextCapacity ==
  \/ Tick
  \/ AdminSpawn
  \/ TransferStackRvToChar
  \/ TransferStackCharToRv
  \/ StartCraft
  \/ CancelCraft

SpecCapacity == Init /\ [][NextCapacity]_vars

\* the crafting queues
NextCraft ==
  \/ Tick
  \/ AdminSpawn
  \/ StartCraft
  \/ CancelCraft

SpecCraft == Init /\ [][NextCraft]_vars

\* the job queues
NextJobs ==
  \/ Tick
  \/ SetIdle
  \/ StartJob
  \/ CancelJob
  \/ ClearJobQueue
  \/ ImportSave

SpecJobs == Init /\ [][NextJobs]_vars

\* the explore flow and its reservation
NextExplore ==
  \/ AdminSpawn
  \/ TransferStackRvToChar
  \/ ExploreFlow
  \/ CancelJob
  \/ ImportSave

SpecExplore == Init /\ [][NextExplore]_vars

\* needs and auto-consume over short and long gaps
NextNeeds ==
  \/ Tick
  \/ Wake
  \/ AdminSpawn
  \/ SetIdle
  \/ DropFromRvStorage

SpecNeeds == Init /\ [][NextNeeds]_vars

\* a new game left alone: time passes, by the real clock or by the offset
NextCatchUp ==
  \/ Away
  \/ AddSimTime

SpecCatchUp == Init /\ [][NextCatchUp]_vars

\* thirsty crew, doubtful water and queued jobs
NextDraws ==
  \/ Tick
  \/ Wake
  \/ SpawnDirtyWater
  \/ ImportSave

SpecDraws == Init /\ [][NextDraws]_vars

\* tiles entered in any order, and jobs resolved on them
NextWorld ==
  \/ Tick
  \/ AdminSetTile
  \/ ImportSave

SpecWorld == Init /\ [][NextWorld]_vars

\* the virtual clock moved forward and back by the admin
NextTime ==
  \/ Tick
  \/ AddSimTime
  \/ ResetSimTime
  \/ AdminSpawn

SpecTime == Init /\ [][NextTime]_vars

\* the stations panel with the admin's spawner
NextStations ==
  \/ AdminSpawn
  \/ SpawnParts
  \/ UpgradeStation
  \/ DropFromRvStorage

SpecStations == Init /\ [][NextStations]_vars

\* the needs, the manual meals and the revival over nights away
NextVitals ==
  \/ Overnight
  \/ AdminSpawn
  \/ SpawnSerum
  \/ Feed
  \/ Drink
  \/ ImportSave

SpecVitals == Init /\ [][NextVitals]_vars

\* the tutorial encounter and the tiles entered
NextTutorial ==
  \/ Tick
  \/ OpenActions
  \/ Recruit
  \/ AdminSetTile
  \/ AdminSpawn
  \/ SpawnMedic

SpecTutorial == Init /\ [][NextTutorial]_vars

\* jobs queued at a pace
NextPace ==
  \/ Tick
  \/ ImportPaced
  \/ SpawnMedic
  \/ AdminSpawn

SpecPace == Init /\ [][NextPace]_vars

\* the job queues of several crew members side by side
NextFaults ==
  \/ Tick
  \/ SpawnMedic
  \/ ImportSave

SpecFaults == Init /\ [][NextFaults]_vars

(***************************************************************************)
(* Properties                                                              *)
(***************************************************************************)
\* the step taken once a second over a gap of n seconds, from state s
RECURSIVE StepEachSecond(_, _, _, _)
StepEachSecond(s, snap, clk, n) ==
  IF n = 0 THEN s
  ELSE StepEachSecond(simulateToNow(s, snap, clk + 1, <<Quiet>>).s, snap, clk + 1, n - 1)

\* the step taken once after a gap of n seconds, from state s
StepOnce(s, snap, clk, n) == simulateToNow(s, snap, clk + n, <<Quiet>>).s

\* every one of the calls over the gap returns normally
RECURSIVE StepsReturn(_, _, _, _)
StepsReturn(s, snap, clk, n) ==
  \/ n = 0
  \/ /\ ~simulateToNow(s, snap, clk + 1, <<Quiet>>).threw
     /\ StepsReturn(simulateToNow(s, snap, clk + 1, <<Quiet>>).s, snap, clk + 1, n - 1)

\* C1: from any state the program reaches, one call of simulateToNow after
\* a gap of n seconds ends in the same state (needs, conditions, moodlets,
\* storage, queues, lastSimAt) as n calls made one second apart, whenever
\* the calls return normally
C1_OneCallEqualsCallsEachSecond ==
  \A n \in 1..MaxGap :
    (StepsReturn(ClearLog(state), snapshot, clock, n)
       /\ ~simulateToNow(ClearLog(state), snapshot, clock + n, <<Quiet>>).threw)
    => ClearLog(StepOnce(ClearLog(state), snapshot, clock, n))
         = ClearLog(StepEachSecond(ClearLog(state), snapshot, clock, n))

\* used units against capacity, in shared storage and in every pocket
CapOK(s) ==
  /\ countStorageUsed(s) <= s.capacity
  /\ \A c \in 1..Len(s.crew) : countPocketsUsed(s.crew[c]) <= s.crew[c].pockets.capacity

\* the same items in the same places (the order of the lists set aside)
SameInventory(s, t) ==
  /\ StorageQty(s) = StorageQty(t)
  /\ {s.instances[i] : i \in DOMAIN s.instances} = {t.instances[i] : i \in DOMAIN t.instances}
  /\ Len(s.crew) = Len(t.crew)
  /\ \A c \in 1..Len(s.crew) :
       /\ PocketQty(s, c) = PocketQty(t, c)
       /\ {s.crew[c].pockets.instances[i] : i \in DOMAIN s.crew[c].pockets.instances}
            = {t.crew[c].pockets.instances[i] : i \in DOMAIN t.crew[c].pockets.instances}

\* the adds tried on every state reached: a stack item and an instance item,
\* one unit and five
ProbeItems == {"fiber", "knife_pocket"}

ProbeQtys == {1, 5}

\* an add to shared storage keeps the capacity, and one that would exceed
\* it is refused and changes nothing
StorageAddKeeps(s, itemId, qty) ==
  LET r == addItemToStorage(s, itemId, qty, "unset")
  IN /\ CapOK(r.s)
     /\ (countStorageUsed(s) + qty > s.capacity) => (~r.ok /\ r.s = s)

PocketAddKeeps(s, c, itemId, qty) ==
  LET r == addItemToPockets(s, c, itemId, qty)
  IN /\ CapOK(r.s)
     /\ (countPocketsUsed(s.crew[c]) + qty > s.crew[c].pockets.capacity) => (~r.ok /\ r.s = s)

\* a forage that ends now for crew member c, with the draws of roll
YieldKeeps(s, t, c, roll) ==
  CapOK(resolveJobCompletion(s, t, c, SavedEntry(freshUid(s), "forage", t - 10, t - 10, 10, NoMeta), roll).s)

RefusedForSpace(h) == ~h.ok /\ h.reason \in {"storage full", "pockets full"}

\* a transfer out of or into the pockets of c that is refused for lack of
\* space leaves every item where it was
TransfersKeep(s, c) ==
  /\ \A itemId \in MoveItems, qty \in MoveQtys :
       /\ LET r == transferStackRvToChar(s, c, itemId, qty)
          IN CapOK(r.s) /\ (RefusedForSpace(r) => SameInventory(s, r.s))
       /\ LET r == transferStackCharToRv(s, c, itemId, qty)
          IN CapOK(r.s) /\ (RefusedForSpace(r) => SameInventory(s, r.s))
  /\ \A uid \in MoveUids :
       /\ LET r == transferInstanceRvToChar(s, c, uid)
          IN CapOK(r.s) /\ (RefusedForSpace(r) => SameInventory(s, r.s))
       /\ LET r == transferInstanceCharToRv(s, c, uid)
          IN CapOK(r.s) /\ (RefusedForSpace(r) => SameInventory(s, r.s))

\* C2: in every state reached by adds, removes, transfers, crafts, cancels
\* and steps the used units of shared storage and of every pocket are at
\* most the capacity; an add, a transfer or a job yield applied to that
\* state keeps it so; an add that would exceed the capacity is refused and
\* leaves the inventory as it was
C2_UsedWithinCapacity ==
  /\ CapOK(state)
  /\ \A itemId \in ProbeItems, qty \in ProbeQtys :
       /\ StorageAddKeeps(state, itemId, qty)
       /\ \A c \in CrewIds : PocketAddKeeps(state, c, itemId, qty)
  /\ \A c \in CrewIds :
       /\ TransfersKeep(state, c)
       /\ \A roll \in {Quiet, Lucky} : YieldKeeps(state, Now, c, roll)

\* a spawn was refused for lack of space with storage nearly full
C2_Witness ==
  /\ hist.op = "spawn"
  /\ RefusedForSpace(hist)
  /\ countStorageUsed(state) > state.capacity - 4
  /\ CapOK(state)

\* C3: when job A (10 s) and then job B (20 s) are queued for a character
\* whose queue was empty, and the step runs 31 s later, both entries are
\* completed and B's run window starts exactly at A.startAt + A.durationMs
C3_QueueChaining ==
  [][(/\ hist.op = "startJob" /\ hist.valid /\ hist.first /\ hist.dur = 10
      /\ hist'.op = "startJob" /\ hist'.valid /\ hist'.c = hist.c /\ hist'.dur = 20)
     => LET a == simulateToNow(state', snapshot', clock' + 31, <<Quiet, Quiet>>)
        IN /\ ~a.threw
           /\ Len(a.resolved) = 2
           /\ a.resolved[1].c = hist.c /\ a.resolved[2].c = hist.c
           /\ a.resolved[1].endsAt = a.resolved[1].startAt + 10
           /\ a.resolved[2].startAt = a.resolved[1].endsAt
           /\ a.resolved[2].endsAt = a.resolved[2].startAt + 20
           /\ a.s.jobs[hist.c] = <<>>]_vars

\* C4: startJob for an existing character who is not downed, with a known
\* job whose required item (if any) is in shared storage, returns success
\* and appends exactly one entry at the tail of that character's queue,
\* with startAt = now if the queue was empty and no startAt otherwise
C4_ValidStartAppendsOneEntry ==
  [][(hist'.op = "startJob" /\ hist'.valid)
     => LET c == hist'.c
            q == state'.jobs[c]
        IN /\ hist'.ok /\ ~hist'.threw
           /\ Len(q) = Len(state.jobs[c]) + 1
           /\ SubSeq(q, 1, Len(q) - 1) = state.jobs[c]
           /\ q[Len(q)].startAt = (IF hist'.first THEN gameNow(clock', state') ELSE NoTime)
           /\ \A d \in 1..Len(state'.jobs) : d # c => state'.jobs[d] = state.jobs[d]]_vars

\* C5: a simulation step with elapsed > 0 returns normally and ends with
\* lastSimAt = virtual now, whatever the idle behaviours, the queues and the
\* storage are
C5_StepNeverAborts ==
  hist.ran => (~hist.simThrew /\ state.lastSimAt = Now)

\* the operations that report {ok: false, reason}
FailingOps ==
  {"startJob", "startCraft", "upgradeStation", "transferStackRvToChar", "transferStackCharToRv",
   "transferInstanceRvToChar", "transferInstanceCharToRv", "dropFromRvStorage", "recruit"}

\* a crew member without the pockets, which SameInventory compares
CrewSansPockets(s) ==
  [c \in 1..Len(s.crew) |-> [s.crew[c] EXCEPT !.pockets = <<>>]]

\* storage, pockets, queues, station levels and crew are as they were
Untouched(s, t) ==
  /\ SameInventory(s, t)
  /\ s.jobs = t.jobs
  /\ s.crafts = t.crafts
  /\ s.stations = t.stations
  /\ s.capacity = t.capacity
  /\ s.maxCrew = t.maxCrew
  /\ CrewSansPockets(s) = CrewSansPockets(t)

RECURSIVE QtyIn(_, _)
QtyIn(items, itemId) ==
  IF items = <<>> THEN 0
  ELSE (IF Head(items).id = itemId THEN Head(items).qty ELSE 0) + QtyIn(Tail(items), itemId)

RECURSIVE TotalQty(_)
TotalQty(items) == IF items = <<>> THEN 0 ELSE Head(items).qty + TotalQty(Tail(items))

\* the entry of the workbench or stove queue with this id, in state s
CraftEntries(s) ==
  UNION {{s.crafts[st][i] : i \in 1..Len(s.crafts[st])} : st \in CraftStations}

SumUnits(q) == LET Sum[S \in SUBSET ItemIds] ==
                     IF S = {} THEN 0 ELSE LET i == CHOOSE x \in S : TRUE IN q[i] + Sum[S \ {i}]
               IN Sum[ItemIds]

\* C7: after a successful startCraft shared storage holds the previous
\* quantities minus the recipe inputs; completing a queued craft removes no
\* item, does not fail, and adds the output whenever there is room for it
C7_InputsLeaveAtStart ==
  [][/\ (hist'.op = "startCraft" /\ hist'.ok)
          => \E e \in CraftEntries(state') :
               /\ e.id = hist'.id
               /\ e \notin CraftEntries(state)
               /\ \A i \in ItemIds :
                    StorageQty(state')[i] = StorageQty(state)[i] - QtyIn(RecipeInputs(e.recipeId), i)
     /\ \A k \in 1..Len(hist'.crafted) :
          LET done == hist'.crafted[k]
              e == CHOOSE x \in CraftEntries(state) : x.id = done.id
              out == RecipeOutputs(e.recipeId)
          IN /\ \E x \in CraftEntries(state) : x.id = done.id
             /\ \A i \in ItemIds : done.after[i] >= done.before[i]
             /\ (SumUnits(done.before) + TotalQty(out) <= state.capacity)
                  => \A i \in ItemIds : done.after[i] = done.before[i] + QtyIn(out, i)]_vars

\* a craft queued by startCraft was completed by the step
C7_Witness ==
  /\ hist.op = "tick"
  /\ hist.crafted # <<>>
  /\ QtyOf(state.stacks, "cordage_item") >= 1

\* C8: cancelling a craft entry while there is room for its inputs gives
\* every input back and takes the entry out of the queue; cancelling right
\* after startCraft restores the quantities held before startCraft
C8_CraftRefundRoundTrip ==
  [][(hist'.op = "cancelCraft" /\ hist'.ok)
     => \E e \in CraftEntries(state) :
          /\ e.id = hist'.id
          /\ \A x \in CraftEntries(state') : x.id # e.id
          /\ (countStorageUsed(state) + TotalQty(RecipeInputs(e.recipeId)) <= state.capacity)
               => /\ \A i \in ItemIds :
                       StorageQty(state')[i] = StorageQty(state)[i] + QtyIn(RecipeInputs(e.recipeId), i)
                  /\ (hist.op = "startCraft" /\ hist.ok /\ hist.id = e.id)
                       => StorageQty(state') = hist.pre]_vars

\* a craft was started and cancelled at once, and the fiber is back
C8_Witness ==
  /\ hist.op = "cancelCraft"
  /\ hist.ok
  /\ QtyOf(state.stacks, "fiber") = 55
  /\ CraftEntries(state) = {}

\* the quantity of an item among the rations an entry reserved
RECURSIVE ReservedQty(_, _)
ReservedQty(rations, itemId) ==
  IF rations = <<>> THEN 0
  ELSE (IF Head(rations).itemId = itemId THEN Head(rations).qty ELSE 0)
       + ReservedQty(Tail(rations), itemId)

\* C9: cancelling an explore entry, queued or running, returns to the
\* pockets of its character exactly the food and water units the entry
\* reserved
C9_CancelReturnsReservedRations ==
  [][(hist'.op = "cancelJob" /\ hist'.ok)
     => LET c == hist'.c
            e == state.jobs[c][EntryIndex(state.jobs[c], hist'.id)]
        IN e.meta.special = "explore"
             => \A i \in ItemIds :
                  PocketQty(state', c)[i]
                    = PocketQty(state, c)[i] + ReservedQty(e.meta.rationsConsumed, i)]_vars

\* C10: when queuing an explore job fails after the food and water units
\* were taken from the pockets, the pockets hold the units again and the
\* queue has no new entry
C10_FailedExploreRollsBack ==
  [][(hist'.op = "explore" /\ hist'.reserved /\ ~hist'.ok)
     => /\ PocketQty(state', hist'.c) = PocketQty(state, hist'.c)
        /\ state'.jobs = state.jobs]_vars

\* the entries of queue q, their start times left aside
SansStart(q) ==
  [k \in 1..Len(q) |-> [q[k] EXCEPT !.startAt = NoTime]]

\* C11: a successful cancel takes the named entry, and only it, out of the
\* job queue of its character, whatever its position; the other entries
\* keep their order and fields, the other queues are untouched, and when
\* the head was taken the entry that follows it starts at virtual-now
C11_CancelRemovesOnlyNamedEntry ==
  [][(hist'.op = "cancelJob" /\ hist'.ok)
     => LET c == hist'.c
            i == EntryIndex(state.jobs[c], hist'.id)
        IN /\ i # 0
           /\ SansStart(state'.jobs[c]) = SansStart(RemoveAt(state.jobs[c], i))
           /\ \A k \in 2..Len(state'.jobs[c]) : state'.jobs[c][k].startAt = RemoveAt(state.jobs[c], i)[k].startAt
           /\ (i # 1 /\ state'.jobs[c] # <<>>) => state'.jobs[c][1] = state.jobs[c][1]
           /\ (i = 1 /\ state'.jobs[c] # <<>>) => state'.jobs[c][1].startAt = gameNow(clock', state')
           /\ \A d \in DOMAIN state.jobs : d # c => state'.jobs[d] = state.jobs[d]
           /\ state'.crafts = state.crafts]_vars

\* the head of a two-entry queue was cancelled: the later entry is the new
\* head and has started
C11_Witness ==
  /\ hist.op = "cancelJob"
  /\ hist.ok
  /\ Len(state.jobs[hist.c]) = 1
  /\ state.jobs[hist.c][1].id > hist.id
  /\ state.jobs[hist.c][1].startAt = Now

\* no entry of a job queue has the id
NotQueued(s, id) ==
  \A c \in 1..Len(s.jobs) : \A i \in 1..Len(s.jobs[c]) : s.jobs[c][i].id # id

\* no character who is up has a head entry that has ended by instant t
NothingDue(s, t) ==
  \A c \in 1..Len(s.jobs) :
    (~s.crew[c].conditions.downed /\ s.jobs[c] # <<>> /\ s.jobs[c][1].startAt # NoTime)
      => s.jobs[c][1].startAt + s.jobs[c][1].durationMs > t

Logged(s, kind) ==
  \E i \in 1..Len(s.log) : s.log[i] = kind

\* C12: when the resolution of a job entry raised an exception during a
\* step, the entry is out of its queue, the error is in the log, the step
\* went on to its end, the entry after it started where the faulted one
\* ended and was resolved in turn, and no crew member is left with an entry
\* that has ended.  (The craft queues are ticked before the job queues, and
\* resolveCraftCompletion catches whatever it raises itself.)
C12_FaultedEntryRemovedRestTicks ==
  \A k \in 1..Len(hist.resolved) :
    hist.resolved[k].faulted
      => /\ NotQueued(state, hist.resolved[k].id)
         /\ Logged(state, "ERROR: job completion failed")
         /\ ~hist.simThrew
         /\ state.lastSimAt = Now
         /\ NothingDue(state, Now)
         /\ (k < Len(hist.resolved) /\ hist.resolved[k + 1].c = hist.resolved[k].c)
              => hist.resolved[k + 1].startAt = hist.resolved[k].endsAt

\* a step in which the first entry of a queue faulted, the entry behind it
\* was resolved after it and so was the entry of another crew member
C12_Witness ==
  /\ Len(hist.resolved) = 3
  /\ hist.resolved[1].faulted
  /\ ~hist.resolved[2].faulted
  /\ hist.resolved[2].c = hist.resolved[1].c
  /\ hist.resolved[3].c # hist.resolved[1].c
  /\ Logged(state, "finished job")

\* the handlers that end with a simulation step on the running game
StepOps == {"tick", "wake", "addSimTime", "resetSimTime"}

\* C13: a handler whose step finds virtual-now at or before lastSimAt
\* leaves needs, conditions, moodlets, storage, both sets of queues and
\* lastSimAt as they were, adds nothing to the log and writes no snapshot
C13_NoElapsedTimeNoChange ==
  [][(hist'.op \in StepOps /\ clock' + state'.timeOffset <= state.lastSimAt)
     => /\ state' = [ClearLog(state) EXCEPT !.timeOffset = state'.timeOffset]
        /\ snapshot' = snapshot
        /\ ~hist'.ran]_vars

\* the offset was taken back and the step that followed found virtual-now
\* before lastSimAt
C13_Witness ==
  /\ hist.op = "resetSimTime"
  /\ Now < state.lastSimAt
  /\ ~hist.ran

\* C14: whoever reads the game state after a handler, or reads the safety
\* snapshot last written, finds the effects of a simulation step only
\* together with the lastSimAt the step ends with: a state the step has
\* drained carries lastSimAt = virtual-now, and so does a snapshot written
\* while the step completed queue entries
C14_StepAtomicToObservers ==
  hist.ran
    => /\ state.lastSimAt = Now
       /\ (hist.resolved # <<>> \/ hist.crafted # <<>>) => snapshot.lastSimAt = Now

\* a tile of the world map of s that has been created
Discovered(s, tileId) == s.world[tileId].biomeId # "none"

\* C15: asking again for a tile that the map holds returns that tile and
\* creates nothing, at whatever time the second call is made, and no
\* handler changes the biome or the creation time of a tile the map holds
C15_TileCreatedOnceBiomeKept ==
  [][/\ \A tileId \in TileIds :
          Discovered(state, tileId)
            => /\ state'.world[tileId].biomeId = state.world[tileId].biomeId
               /\ state'.world[tileId].createdAt = state.world[tileId].createdAt
     /\ \A tileId \in TileIds :
          getOrCreateTile(getOrCreateTile(state', gameNow(clock', state'), tileId),
                          gameNow(clock', state') + TickGap, tileId)
            = getOrCreateTile(state', gameNow(clock', state'), tileId)]_vars

\* the south tile was created first, and the default tile after it: the
\* weights of the south tile are now other than those it was rolled with
C15_Witness ==
  /\ Discovered(state, "kpbpbpb")
  /\ Discovered(state, DefaultTile)
  /\ state.world["kpbpbpb"].createdAt < state.world[DefaultTile].createdAt
  /\ hist.op = "setTile"

\* the biome a tile gets in a world map without any other tile
BiomeAlone(tileId) ==
  weightedPick(TileDraw(tileId), Picks(<<>>))

\* C16: the biome of a tile depends on the world seed and the tile id
\* alone: it is the biome the tile gets when it is the first tile created,
\* whatever tiles were created before it
C16_BiomeFixedBySeedAndTile ==
  \A tileId \in TileIds :
    Discovered(state, tileId) => state.world[tileId].biomeId = BiomeAlone(tileId)

\* what a resolution leaves in storage and on the character
Outcome(s, c) ==
  [stacks |-> s.stacks, instances |-> s.instances, needs |-> s.crew[c].needs,
   injury |-> s.crew[c].conditions.injury, sickness |-> s.crew[c].conditions.sickness,
   xp |-> s.crew[c].xp]

\* C17: two resolutions of the head entry of a queue, made from the same
\* state at the same instant with the same draws of the seeded generator,
\* leave the same storage, needs, injury, sickness and XP, whatever
\* Math.random returns
C17_ResolutionFixedBySeed ==
  \A c \in CrewIds :
    state.jobs[c] # <<>>
      => \A p \in Profiles :
           Outcome(resolveJobCompletion(state, Now, c, state.jobs[c][1], [p EXCEPT !.dirtySick = FALSE]).s, c)
             = Outcome(resolveJobCompletion(state, Now, c, state.jobs[c][1], [p EXCEPT !.dirtySick = TRUE]).s, c)

\* the resolutions a handler made for crew member c, in the order made
ResolvedOf(resolved, c) ==
  SelectSeq(resolved, LAMBDA r : r.c = c)

\* C18: the entries a handler resolves for a crew member are the first
\* entries of the queue that member had, each taken once and in queue
\* order; each had started and ended by virtual-now, and none is in a queue
\* afterwards.  Cancel and Clear Queue resolve nothing, and the entries
\* they take out are in no queue afterwards, where alone an entry can be
\* resolved.
C18_EntryResolvedAtMostOnce ==
  [][/\ \A k \in 1..Len(hist'.resolved) :
          /\ hist'.resolved[k].startAt # NoTime
          /\ hist'.resolved[k].endsAt <= gameNow(clock', state')
          /\ NotQueued(state', hist'.resolved[k].id)
     /\ hist'.op # "import"
          => \A c \in DOMAIN state.jobs :
               /\ Len(ResolvedOf(hist'.resolved, c)) <= Len(state.jobs[c])
               /\ \A j \in 1..Len(ResolvedOf(hist'.resolved, c)) :
                    ResolvedOf(hist'.resolved, c)[j].id = state.jobs[c][j].id
     /\ (hist'.op = "cancelJob" /\ hist'.ok)
          => hist'.resolved = <<>> /\ NotQueued(state', hist'.id)
     /\ (hist'.op = "clearJobQueue" /\ hist'.ok)
          => hist'.resolved = <<>> /\ state'.jobs[hist'.c] = <<>>]_vars

\* a step resolved the two entries of a queue, one after the other
C18_Witness ==
  /\ hist.op = "tick"
  /\ Len(hist.resolved) = 2
  /\ hist.resolved[1].endsAt = hist.resolved[2].startAt
  /\ hist.resolved[1].id # hist.resolved[2].id
  /\ \A c \in CrewIds : state.jobs[c] = <<>>

WaterAboard(s) ==
  StorageQty(s)["water_clean"] + StorageQty(s)["water_dirty"]

Parched(s, c) ==
  \E m \in s.crew[c].moodlets : m.id = "m_parched"

\* C19: maybeAutoConsume for a crew member who is up and whose thirst is
\* exactly the threshold takes one unit of water out of storage when there
\* is any, and leaves the Parched moodlet when there is none; with thirst
\* the smallest step above the threshold, or a whole point above it, no
\* water is taken, thirst stays and no Parched moodlet is given
C19_AutoDrinkAtThresholdNotAbove ==
  [][(hist'.op = "autoConsume" /\ ~state.crew[hist'.c].conditions.downed)
     => /\ state.crew[hist'.c].needs.thirst = autoConsumeThreshold
             => IF WaterAboard(state) > 0
                THEN /\ WaterAboard(state') = WaterAboard(state) - 1
                     /\ state'.crew[hist'.c].needs.thirst > autoConsumeThreshold
                     /\ Logged(state', "drank water")
                ELSE /\ Parched(state', hist'.c)
                     /\ state'.crew[hist'.c].needs.thirst = autoConsumeThreshold
        /\ state.crew[hist'.c].needs.thirst \in {autoConsumeThreshold + 1, autoConsumeThreshold + NeedScale}
             => /\ WaterAboard(state') = WaterAboard(state)
                /\ state'.crew[hist'.c].needs.thirst = state.crew[hist'.c].needs.thirst
                /\ Parched(state', hist'.c) = Parched(state, hist'.c)
                /\ ~Logged(state', "drank water")]_vars

\* thirst stood at the threshold and one unit of clean water was drunk
C19_Witness ==
  /\ hist.op = "autoConsume"
  /\ Logged(state, "drank water")
  /\ state.crew[hist.c].needs.thirst = autoConsumeThreshold + WaterThirst("water_clean")
  /\ ~Parched(state, hist.c)

\* the needs of the player in a new game
NewNeeds == defaultNewGameState(Instant(1)).crew[1].needs

\* C20: in a new game whose player rests with an empty queue, once the
\* step has run at virtual time E seconds after the start, hunger and
\* thirst are the initial 80 less E times their rate and not below 0, and
\* morale is the initial morale plus E times the rest rate and not above
\* 100; for E of six hours (360 minutes) that is 0, 0 and 100
C20_OfflineCatchUp ==
  (/\ state.lastSimAt = Now
   /\ state.jobs[1] = <<>>
   /\ state.crew[1].idleBehavior = "rest")
    => /\ state.crew[1].needs.hunger
            = Max(0, NewNeeds.hunger - (Now - Instant(1)) * hungerPerSec)
       /\ state.crew[1].needs.thirst
            = Max(0, NewNeeds.thirst - (Now - Instant(1)) * thirstPerSec)
       /\ state.crew[1].needs.morale
            = Min(100 * NeedScale, NewNeeds.morale + (Now - Instant(1)) * moraleRecoverPerSecRest)

\* six hours were caught up in a single step
C20_Witness ==
  /\ hist.op = "away"
  /\ hist.ran
  /\ clock = Instant(1) + SixHours
  /\ state.timeOffset = 0
  /\ state.lastSimAt = Instant(1) + SixHours
  /\ state.crew[1].needs.hunger = 0
  /\ state.crew[1].needs.morale = 100 * NeedScale

(***************************************************************************)
(* C21: a successful upgrade of the storage station from level 0 to level  *)
(* 1 raises the storage capacity from 60 to 90 in the same call; it leaves *)
(* every instance in storage and every stack quantity as they were, except *)
(* for the cost of the level (10 scrap metal, 3 wiring), which the call    *)
(* takes out of storage.                                                   *)
(***************************************************************************)
UpgradedStorage ==
  /\ hist'.op = "upgradeStation"
  /\ hist'.ok
  /\ state.stations["storage"] = 0

CostOf(itemId) ==
  CASE itemId = "scrap_metal" -> 10 [] itemId = "wiring" -> 3 [] OTHER -> 0

C21_UpgradeRaisesCapacityKeepsStock ==
  [][UpgradedStorage
       => /\ state.capacity = 60
          /\ state'.capacity = 90
          /\ state'.stations["storage"] = 1
          /\ state'.instances = state.instances
          /\ \A itemId \in StackItems :
               QtyOf(state'.stacks, itemId) = QtyOf(state.stacks, itemId) - CostOf(itemId)]_vars

C21_Witness ==
  /\ hist.op = "upgradeStation"
  /\ hist.ok
  /\ state.stations["storage"] = 1
  /\ state.capacity = 90
  /\ QtyOf(state.stacks, "water_clean") > 0

\* C21 as the specification words it: no stored stack quantity changes
C21_UpgradeLeavesEveryStack ==
  [][UpgradedStorage
       => /\ state'.capacity = 90
          /\ state'.instances = state.instances
          /\ \A itemId \in StackItems :
               QtyOf(state'.stacks, itemId) = QtyOf(state.stacks, itemId)]_vars

(***************************************************************************)
(* C22: in every reachable state the hunger, thirst, morale and health of  *)
(* every crew member lie between 0 and 100, whatever drains, job           *)
(* resolutions, automatic and manual meals, downings and revivals came     *)
(* before.                                                                 *)
(***************************************************************************)
NeedNames == {"hunger", "thirst", "morale", "health"}

C22_NeedsWithinRange ==
  \A c \in 1..Len(state.crew) :
    \A n \in NeedNames :
      /\ state.crew[c].needs[n] >= 0
      /\ state.crew[c].needs[n] <= 100 * NeedScale

\* a crew member starved through the night, downed by the job and revived
C22_Witness ==
  \E c \in 1..Len(state.crew) :
    /\ state.crew[c].needs.hunger = 0
    /\ state.crew[c].needs.health = 60 * NeedScale
    /\ ~state.crew[c].conditions.downed
    /\ hist.resolved # <<>>

Consumed(s) ==
  \E tid \in TileIds : s.world[tid].tutorialOverlay /\ s.world[tid].encounter = "none"

OnlyFirstTile(s) ==
  \A tid \in TileIds :
    (s.world[tid].tutorialOverlay \/ s.world[tid].encounter # "none") => tid = s.firstTileId

C24_TutorialEncounterOnce ==
  [][/\ OnlyFirstTile(state')
     /\ state.firstTileId # "none" => state'.firstTileId = state.firstTileId
     /\ (Consumed(state) \/ (hist'.op = "recruitTutorial" /\ hist'.ok))
          => \A tid \in TileIds : state'.world[tid].encounter = "none"
     /\ \A tid \in TileIds : state.world[tid].tutorialOverlay => state'.world[tid].tutorialOverlay]_vars

\* after the recruitment the player moved on to another tile and came back
C24_Witness ==
  /\ Consumed(state)
  /\ Len(state.crew) = 2
  /\ hist.op = "setTile"
  /\ state.lastTileId = state.firstTileId
  /\ \A tid \in TileIds : state.world[tid].biomeId # "none"

(***************************************************************************)
(* C25: the quantity deposited for each yield of a normal job is the       *)
(* rolled amount times the yield multiplier, rounded down, and the yield   *)
(* multiplier contains the yield factor of the pace (0.90 safe, 1.0        *)
(* normal, 1.15 push).  Stated for a forage entry resolved by a step into  *)
(* a storage with room for every yield: for one of the two amounts the     *)
(* rolls can give, every yield grows by floor(rolled * pace factor * the   *)
(* multiplier of skill and tool).                                          *)
(***************************************************************************)
\* 100 * paceMultipliers(pace).yield
PaceYield100(pace) == CASE pace = "safe" -> 90 [] pace = "push" -> 115 [] OTHER -> 100

Rolled(y, amt) == IF amt = "min" THEN y.min ELSE y.max

\* crew member c resolved its forage entry in this step, and nothing else
\* touched storage
ForageResolved(c) ==
  /\ c \in 1..Len(state.crew)
  /\ Len(state.jobs[c]) = 1
  /\ state.jobs[c][1].jobId = "forage"
  /\ state.stacks = <<>>
  /\ Len(hist'.resolved) = 1
  /\ hist'.resolved[1].c = c
  /\ ~hist'.resolved[1].faulted

C25_PaceScalesYield ==
  [][\A c \in 1..Len(state.crew) :
       ForageResolved(c)
         => \E amt \in {"min", "max"} :
              \A k \in 1..Len(JobYields("forage")) :
                QtyOf(state'.stacks, JobYields("forage")[k].id)
                  = (Rolled(JobYields("forage")[k], amt)
                       * PaceYield100(state.jobs[c][1].pace)
                       * YieldMult100(getToolTierForJob(state.crew[c], "forage"),
                                      effectiveSkill(state.crew[c], "Wilderness")))
                    \div 10000]_vars

(***************************************************************************)
(* C26: in one job resolution the risk rolls apply at most one injury.     *)
(* The major roll comes first and the minor roll counts only if the major  *)
(* roll did not hit; neither applies to a character who has an injury;     *)
(* and the sickness roll applies only to a character who is not sick.      *)
(***************************************************************************)
LogCount(s, kind) == Cardinality({i \in 1..Len(s.log) : s.log[i] = kind})

\* the step resolved the entry of the player, a job with risks, without an
\* exception
RiskResolved ==
  /\ Len(state.jobs[1]) = 1
  /\ JobHasRisk(state.jobs[1][1].jobId)
  /\ Len(hist'.resolved) = 1
  /\ ~hist'.resolved[1].faulted

InjuryAfter(had, roll) ==
  IF had.severity # "none" THEN had.severity
  ELSE IF roll.major THEN "major"
  ELSE IF roll.minor THEN "minor"
  ELSE "none"

C26_AtMostOneInjuryPerResolution ==
  [][RiskResolved
       => /\ LogCount(state', "injury") <= 1
          /\ state'.crew[1].conditions.injury.severity
               = InjuryAfter(state.crew[1].conditions.injury, hist'.roll)
          /\ state.crew[1].conditions.injury.severity # "none"
               => /\ state'.crew[1].conditions.injury = state.crew[1].conditions.injury
                  /\ LogCount(state', "injury") = 0
          /\ state.crew[1].conditions.sickness.active
               => /\ state'.crew[1].conditions.sickness = state.crew[1].conditions.sickness
                  /\ LogCount(state', "got sick") = 0
          /\ ~state.crew[1].conditions.sickness.active
               => (state'.crew[1].conditions.sickness.active
                     <=> (hist'.roll.sick /\ JobSickRisk(state.jobs[1][1].jobId)))]_vars

\* both injury rolls hit and the sickness roll hit: one injury, the major one
C26_Witness ==
  /\ hist.op = "tick"
  /\ Len(hist.resolved) = 1
  /\ hist.roll.major /\ hist.roll.minor /\ hist.roll.sick
  /\ state.crew[1].conditions.injury.severity = "major"
  /\ state.crew[1].conditions.sickness.active
  /\ LogCount(state, "injury") = 1
  /\ LogCount(state, "got sick") = 1

(***************************************************************************)
(* C27: when an explore entry is resolved, the extra minor-injury roll is  *)
(* made whether the success check passed or not, and when it hits the      *)
(* character ends the resolution with a minor injury while the rest of the *)
(* resolution (risk rolls, tool wear, XP, downed check, the closing log    *)
(* line) is still carried out.                                             *)
(***************************************************************************)
ExploreResolved ==
  /\ Len(state.jobs[1]) = 1
  /\ state.jobs[1][1].jobId = "explore"
  /\ Len(hist'.resolved) = 1

C27_ExtraInjuryThenRestOfResolution ==
  [][(ExploreResolved /\ hist'.roll.extraInjury)
       => /\ state'.crew[1].conditions.injury.severity = "minor"
          /\ LogCount(state', "injury") = 1
          /\ LogCount(state', "xp") = 1
          /\ LogCount(state', "finished job") = 1
          /\ ~hist'.resolved[1].faulted]_vars

(***************************************************************************)
(* C28: after every simulateToNow call with elapsed > 0, no crew member    *)
(* keeps a moodlet, a sickness or an injury that it had before the call    *)
(* and whose endsAt is at or before virtual-now.                           *)
(***************************************************************************)
KeepsExpired(old, new, t) ==
  \/ \E m \in old.moodlets : m \in new.moodlets /\ m.endsAt <= t
  \/ /\ old.conditions.sickness.active
     /\ new.conditions.sickness = old.conditions.sickness
     /\ old.conditions.sickness.endsAt <= t
  \/ /\ old.conditions.injury.severity # "none"
     /\ new.conditions.injury = old.conditions.injury
     /\ old.conditions.injury.endsAt <= t

C28_ExpiredEffectsRemoved ==
  [][hist'.ran =>
       \A c \in 1..Len(state.crew) :
         ~KeepsExpired(state.crew[c], state'.crew[c], gameNow(clock', state'))]_vars

\* the same for the crew members that are not downed before the call
C28_ExpiredEffectsRemovedUnlessDowned ==
  [][hist'.ran =>
       \A c \in 1..Len(state.crew) :
         ~state.crew[c].conditions.downed
           => ~KeepsExpired(state.crew[c], state'.crew[c], gameNow(clock', state'))]_vars

(***************************************************************************)
(* C29: when the danger-score roll downs a character, the character is     *)
(* revived in the same call if and only if a revive serum is in shared     *)
(* storage: then exactly one serum is consumed and downed is false         *)
(* afterwards; otherwise downed stays true, and no later simulation step   *)
(* clears it.                                                              *)
(***************************************************************************)
Serums(s) == QtyOf(s.stacks, "revive_serum")

C29_RevivedIffSerumInStorage ==
  [][/\ LogCount(state', "downed") = 1
          => IF Serums(state) >= 1
             THEN /\ LogCount(state', "revived") = 1
                  /\ ~state'.crew[1].conditions.downed
                  /\ Serums(state') = Serums(state) - 1
             ELSE /\ LogCount(state', "revived") = 0
                  /\ state'.crew[1].conditions.downed
                  /\ Serums(state') = Serums(state)
     /\ LogCount(state', "downed") = 0
          => /\ Serums(state') >= Serums(state)
             /\ LogCount(state', "revived") = 0
     /\ state.crew[1].conditions.downed => state'.crew[1].conditions.downed]_vars

\* the player was downed and revived with the serum in one step
C29_Witness ==
  /\ hist.op = "tick"
  /\ LogCount(state, "downed") = 1
  /\ LogCount(state, "revived") = 1
  /\ ~state.crew[1].conditions.downed
  /\ state.crew[1].needs.health = 60 * NeedScale
  /\ Serums(state) = 0

\* the player stays downed in a later step although a serum is in storage by then
C29_StaysDowned ==
  /\ hist.op = "overnight"
  /\ state.crew[1].conditions.downed
  /\ Serums(state) = 1

(***************************************************************************)
(* C30: when a craft completes and storage cannot take one of the outputs  *)
(* of the recipe, only that output is dropped, with a log entry: every     *)
(* other output is still tried and added if it fits at its turn, the entry *)
(* leaves the queue, and the inputs are not returned.                      *)
(***************************************************************************)
\* whether output k of the list fits at its turn, with `used` units in a
\* storage of capacity `cap` before the first output
RECURSIVE Fits(_, _, _, _)
Fits(outs, k, used, cap) ==
  IF k = 1 THEN used + outs[1].qty <= cap
  ELSE LET first == used + outs[1].qty <= cap
       IN Fits(Tail(outs), k - 1, IF first THEN used + outs[1].qty ELSE used, cap)

AddedQty(outs, used, cap, itemId) ==
  LET Sum[k \in 0..Len(outs)] ==
        IF k = 0 THEN 0
        ELSE Sum[k - 1] + (IF outs[k].id = itemId /\ Fits(outs, k, used, cap) THEN outs[k].qty ELSE 0)
  IN Sum[Len(outs)]

RefusedOutputs(outs, used, cap) == Cardinality({k \in 1..Len(outs) : ~Fits(outs, k, used, cap)})

C30_RefusedOutputDroppedAlone ==
  [][Len(hist'.crafted) = 1 =>
       LET done == hist'.crafted[1]
           e == CHOOSE x \in CraftEntries(state) : x.id = done.id
           outs == LoadedOutputs(e.recipeId)
           used == SumUnits(done.before)
       IN /\ \E x \in CraftEntries(state) : x.id = done.id
          /\ \A x \in CraftEntries(state') : x.id # done.id
          /\ \A i \in ItemIds :
               done.after[i] = done.before[i] + AddedQty(outs, used, state.capacity, i)
          /\ LogCount(state', "storage full: crafted") = RefusedOutputs(outs, used, state.capacity)
          /\ LogCount(state', "craft complete") = 1]_vars

\* the first output of the recipe was refused and the second one was added
C30_Witness ==
  /\ Len(hist.crafted) = 1
  /\ stock.outputs[1].id = "fiber"
  /\ stock.outputs[2].id = "bandage"
  /\ LogCount(state, "storage full: crafted") = 1
  /\ hist.crafted[1].after["bandage"] = hist.crafted[1].before["bandage"] + 1
  /\ hist.crafted[1].after["fiber"] = hist.crafted[1].before["fiber"]

(***************************************************************************)
(* C31: when the yields of a normal job are deposited and storage refuses  *)
(* one deposit as full, no later yield of that job is deposited, the       *)
(* yields deposited before it stay in storage, a warning is logged, and    *)
(* the resolution goes on with the risk rolls and the XP.                  *)
(***************************************************************************)
\* the quantity of yield k of the job, as rolled and scaled
YieldQty(s, c, jobId, amt, k) ==
  LET y == JobYields(jobId)[k]
      mult == YieldMult100(getToolTierForJob(s.crew[c], jobId),
                           effectiveSkill(s.crew[c], JobXpSkill(jobId)))
  IN Max(0, (Rolled(y, amt) * mult) \div 100)

\* the units in storage before yield k, when every yield before it was stored
UsedBefore(s, c, jobId, amt, k) ==
  LET Sum[j \in 0..Len(JobYields(jobId))] ==
        IF j = 0 THEN countStorageUsed(s) ELSE Sum[j - 1] + YieldQty(s, c, jobId, amt, j)
  IN Sum[k - 1]

\* the first yield that does not fit, 0 when all of them fit
FirstRefused(s, c, jobId, amt) ==
  LET n == Len(JobYields(jobId))
      Bad == {k \in 1..n : /\ YieldQty(s, c, jobId, amt, k) > 0
                           /\ UsedBefore(s, c, jobId, amt, k) + YieldQty(s, c, jobId, amt, k) > s.capacity}
  IN IF Bad = {} THEN 0 ELSE CHOOSE k \in Bad : \A j \in Bad : k <= j

\* the step resolved one entry, the head of the queue of c, a normal job
YieldsResolved(c) ==
  /\ state.jobs[c] # <<>>
  /\ state.jobs[c][1].meta.special = "none"
  /\ JobYields(state.jobs[c][1].jobId) # <<>>
  /\ Len(hist'.resolved) = 1
  /\ hist'.resolved[1].id = state.jobs[c][1].id
  /\ ~hist'.resolved[1].faulted

C31_RefusedYieldEndsDeposits ==
  [][\A c \in 1..Len(state.crew) :
       YieldsResolved(c) =>
         LET jobId == state.jobs[c][1].jobId
             amt == hist'.roll.amt
             first == FirstRefused(state, c, jobId, amt)
         IN /\ \A k \in 1..Len(JobYields(jobId)) :
                 StorageQty(state')[JobYields(jobId)[k].id] =
                   StorageQty(state)[JobYields(jobId)[k].id]
                     + (IF first = 0 \/ k < first THEN YieldQty(state, c, jobId, amt, k) ELSE 0)
            /\ LogCount(state', "storage full: yields") = (IF first = 0 THEN 0 ELSE 1)
            /\ (hist'.roll.major /\ JobHasRisk(jobId)
                  /\ state.crew[c].conditions.injury.severity = "none")
                 => state'.crew[c].conditions.injury.severity = "major"
            /\ LogCount(state', "xp") = 1
            /\ LogCount(state', "finished job") = 1]_vars

\* the first yield of a forage job was refused with one unit free; the
\* second one, of one unit, would have fitted and was not deposited
C31_Witness ==
  /\ hist.op = "tick"
  /\ Len(hist.resolved) = 1
  /\ hist.roll.amt = "min"
  /\ LogCount(state, "storage full: yields") = 1
  /\ LogCount(state, "xp") = 1
  /\ StorageQty(state)["stick"] = 0
  /\ StorageQty(state)["stone"] = 0
  /\ countStorageUsed(state) = state.capacity - 1

\* the first yield is in storage and the second one was refused
C31_PartialYieldKept ==
  /\ hist.op = "tick"
  /\ Len(hist.resolved) = 1
  /\ LogCount(state, "storage full: yields") = 1
  /\ LogCount(state, "gained") = 1
  /\ StorageQty(state)["stick"] > 0
  /\ StorageQty(state)["stone"] = 0

(***************************************************************************)
(* C32: in every reachable state of every job queue and craft queue at     *)
(* most one entry has startAt set, and it is the entry at index 0; the     *)
(* head of a queue that is not empty has startAt set and every later entry *)
(* has startAt = null.                                                     *)
(***************************************************************************)
QueueShape(q) ==
  /\ q # <<>> => q[1].startAt # NoTime
  /\ \A i \in 2..Len(q) : q[i].startAt = NoTime

C32_OnlyHeadStarted ==
  /\ \A c \in 1..Len(state.crew) : QueueShape(state.jobs[c])
  /\ \A st \in CraftStations : QueueShape(state.crafts[st])

\* the head of a craft queue was cancelled while a job queue had entries
C32_Witness ==
  /\ hist.op = "cancelCraft"
  /\ hist.ok
  /\ Len(state.crafts["workbench"]) = 1
  /\ state.crafts["workbench"][1].startAt > state.crafts["workbench"][1].createdAt
  /\ \E c \in 1..Len(state.crew) : Len(state.jobs[c]) = 2

(***************************************************************************)
(* C33: no queue entry runs before it exists: every job or craft entry     *)
(* whose startAt is set has startAt >= createdAt, also when it was queued  *)
(* behind a head whose end had passed and that had not been ticked yet.    *)
(***************************************************************************)
StartsAfterCreation(q) ==
  \A i \in 1..Len(q) : q[i].startAt # NoTime => q[i].startAt >= q[i].createdAt

C33_NoStartBeforeCreation ==
  /\ \A c \in 1..Len(state.crew) : StartsAfterCreation(state.jobs[c])
  /\ \A st \in CraftStations : StartsAfterCreation(state.crafts[st])

(***************************************************************************)
(* C34: every interval of virtual time is applied to hunger and thirst by  *)
(* the continuous drain at most once: over any sequence of simulateToNow   *)
(* calls, those that fail part-way included, the time drained from a crew  *)
(* member that is not downed never exceeds the virtual time elapsed since  *)
(* the state was created.  (No job is resolved and nothing is eaten in the *)
(* specification, so the needs only change by the drain.)                  *)
(***************************************************************************)
C34_DrainedWithinElapsedTime ==
  \A c \in 1..Len(state.crew) :
    ~state.crew[c].conditions.downed =>
      /\ NewNeeds.hunger - state.crew[c].needs.hunger <= hungerPerSec * (Now - Instant(1))
      /\ NewNeeds.thirst - state.crew[c].needs.thirst <= thirstPerSec * (Now - Instant(1))

(***************************************************************************)
(* C35: reserved explore rations are never lost: every explore entry that  *)
(* leaves a job queue without being resolved, through cancelQueuedJob or   *)
(* through clearJobQueue, returns the food and water units it recorded to  *)
(* the pockets of its character.                                           *)
(***************************************************************************)
\* the units of an item reserved by the explore entries of a queue
RECURSIVE ReservedIn(_, _)
ReservedIn(q, itemId) ==
  IF q = <<>> THEN 0
  ELSE (IF Head(q).meta.special = "explore"
        THEN ReservedQty(Head(q).meta.rationsConsumed, itemId) ELSE 0)
       + ReservedIn(Tail(q), itemId)

C35_UnresolvedExploreReturnsRations ==
  [][(hist'.op \in {"cancelJob", "clearJobQueue"} /\ hist'.ok)
     => \A i \in ItemIds :
          PocketQty(state', hist'.c)[i] + ReservedIn(state'.jobs[hist'.c], i)
            = PocketQty(state, hist'.c)[i] + ReservedIn(state.jobs[hist'.c], i)]_vars

\* the same for cancelQueuedJob alone
C35_CancelAlone ==
  [][(hist'.op = "cancelJob" /\ hist'.ok)
     => \A i \in ItemIds :
          PocketQty(state', hist'.c)[i] + ReservedIn(state'.jobs[hist'.c], i)
            = PocketQty(state, hist'.c)[i] + ReservedIn(state.jobs[hist'.c], i)]_vars

(***************************************************************************)
(* C36: no job entry is resolved for a character who is downed at the      *)
(* moment of the resolution: once a resolution has set downed and no serum *)
(* revived the character, the other entries of the queue stay unresolved   *)
(* in that step and in every later step.  (The crew is the player alone;   *)
(* every resolution of a forage entry logs its XP before the downed check.)*)
(***************************************************************************)
\* no XP line follows a downing that was not followed by a revival
NoneResolvedOnceDowned(log) ==
  \A i \in 1..Len(log) :
    (log[i] = "downed" /\ ~(i < Len(log) /\ log[i + 1] = "revived"))
      => \A j \in (i + 1)..Len(log) : log[j] # "xp"

C36_NoResolutionWhileDowned ==
  [][/\ NoneResolvedOnceDowned(state'.log)
     /\ \A c \in 1..Len(state.crew) :
          state.crew[c].conditions.downed
            => \A k \in 1..Len(hist'.resolved) : hist'.resolved[k].c # c]_vars

\* the part of it about the steps after the one that downed the character
C36_NoResolutionInLaterSteps ==
  [][\A c \in 1..Len(state.crew) :
       state.crew[c].conditions.downed
         => \A k \in 1..Len(hist'.resolved) : hist'.resolved[k].c # c]_vars

(***************************************************************************)
(* C37: a freshly created game state has the starter supplies in shared    *)
(* storage: 4 basic rations (ration-allowed), 4 clean water, 1 dirty water *)
(* and 1 empty bottle, with used units within the level-0 capacity of 60.  *)
(***************************************************************************)
StarterSupplies(s) ==
  /\ StorageQty(s)["ration_basic"] = 4
  /\ \E i \in 1..Len(s.stacks) : s.stacks[i].itemId = "ration_basic" /\ s.stacks[i].isRationAllowed
  /\ StorageQty(s)["water_clean"] = 4
  /\ StorageQty(s)["water_dirty"] = 1
  /\ StorageQty(s)["bottle_empty"] = 1
  /\ countStorageUsed(s) <= StorageCapAt(0)
  /\ s.capacity = StorageCapAt(0)

C37_StarterSuppliesAboard ==
  hist.op = "boot" => StarterSupplies(state)

(***************************************************************************)
(* C38: an active sickness is never replaced: while the sickness of a      *)
(* character is active no job resolution, auto-consumption or manual       *)
(* eating or drinking overwrites it or changes its endsAt; it ends only    *)
(* when virtual time reaches the endsAt it was given when applied.         *)
(***************************************************************************)
C38_ActiveSicknessKept ==
  [][\A c \in 1..Len(state.crew) :
       state.crew[c].conditions.sickness.active
         => \/ state'.crew[c].conditions.sickness = state.crew[c].conditions.sickness
            \/ /\ ~state'.crew[c].conditions.sickness.active
               /\ state.crew[c].conditions.sickness.endsAt <= gameNow(clock', state')]_vars

(***************************************************************************)
(* C39: craft queues make progress: while virtual time advances and the    *)
(* simulation step keeps being called, every entry placed in the craft     *)
(* queue of a station is eventually removed from it (completed or          *)
(* cancelled), and entries are completed in the order they were queued.    *)
(***************************************************************************)
\* the ids a craft entry can bear: the smallest id not in use, beside the
\* knife and the clothes in the pockets of the player and the entries queued
CraftIds == 1..(MaxQueue + 2)

InCraftQueue(id) == \E e \in CraftEntries(state) : e.id = id

\* the entries a step completed are a prefix of their queue, in its order
CompletedInOrder ==
  LET done == {hist'.crafted[k].id : k \in 1..Len(hist'.crafted)}
      At(id) == CHOOSE k \in 1..Len(hist'.crafted) : hist'.crafted[k].id = id
  IN \A st \in CraftStations :
       \A i \in 1..Len(state.crafts[st]) :
         state.crafts[st][i].id \in done
           => \A j \in 1..(i - 1) :
                /\ state.crafts[st][j].id \in done
                /\ At(state.crafts[st][j].id) < At(state.crafts[st][i].id)

C39_CraftQueuesProgress ==
  /\ [](\A e \in CraftEntries(state) : e.id \in CraftIds)
  /\ \A id \in CraftIds : InCraftQueue(id) ~> ~InCraftQueue(id)
  /\ [][CompletedInOrder]_vars

\* a step completed the head of a queue and the entry behind it has taken
\* its place, started at the instant the first one ended
C39_Witness ==
  /\ hist.op = "tick"
  /\ Len(hist.crafted) = 1
  /\ state.crafts["workbench"] # <<>>
  /\ state.crafts["workbench"][1].id # hist.crafted[1].id
  /\ state.crafts["workbench"][1].startAt
       = hist.crafted[1].startAt + RecipeTimeSec("cordage")

====
